---- MODULE Spec2Model ----
(***************************************************************************)
(* A model of the monitoring core of uplite: the history store             *)
(* (models/connection_history.py), the statistics derived from it, the     *)
(* target checker (utils/connection_checker.py), the status update of a    *)
(* connection (models/connection.py) and the two drivers of checks, the    *)
(* monitor loop (monitor_service.py) and the API handlers (views/api.py).  *)
(*                                                                         *)
(* Conventions.  A Python value that may be None is a sequence of length   *)
(* at most one: None is <<>> and a value v is <<v>>.  A datetime is a      *)
(* number of seconds; date() is the day number.  A latency is a whole      *)
(* number of milliseconds.  A number the code rounds to 2 decimals is kept *)
(* in hundredths, a duration rounded to 1 decimal minute in tenths of a    *)
(* minute.  Floating point is taken as exact arithmetic.                   *)
(***************************************************************************)
EXTENDS Integers, Sequences, FiniteSets, TLC

VARIABLES
    now,         \* datetime.utcnow(), in seconds
    history,     \* rows of table connection_history, in order of id
    nextId,      \* the id the next inserted row gets
    args,        \* arguments of the last query
    entries,     \* rows the last query read, in the order the store returned them
    report,      \* what the last get_connection_statistics, get_chart_history or
                 \* widget get_data returned
    medianOut,   \* what the last get_median_response_time returned
    probe,       \* the last call of check_connection: its arguments and what it gave
    connections, \* rows of table connections, by id
    mon,         \* the monitor process: where it is in its loop, and its cycle
    api,         \* the request threads of the web process
    begun        \* checks begun or queued so far

storeVars == <<now, history, nextId>>
queryVars == <<args, entries, report, medianOut>>
checkVars == <<probe, connections, mon, api, begun>>
vars == <<now, history, nextId, args, entries, report, medianOut,
          probe, connections, mon, api, begun>>

(***************************************************************************)
(* Python values                                                           *)
(***************************************************************************)
None == <<>>
Some(x) == <<x>>

\* bool(x) of an optional string and of an optional number
TruthyStr(o) == o # None /\ o[1] # ""
TruthyNum(o) == o # None /\ o[1] # 0

\* a row of connection_history
Row(id, c, t, status, response_time, error_message) ==
    [id |-> id, connection_id |-> c, timestamp |-> t, status |-> status,
     response_time |-> response_time, error_message |-> error_message]

Day == 86400

\* datetime.date(): the calendar day of an instant
Date(t) == t \div Day

\* round() of the quotient n / d (n >= 0, d > 0) to a whole number, ties to even
RoundHalfEven(n, d) ==
    LET q == n \div d
        r == n % d
    IN  IF 2 * r < d THEN q
        ELSE IF 2 * r > d THEN q + 1
        ELSE IF q % 2 = 0 THEN q ELSE q + 1

RECURSIVE SumSeq(_)
SumSeq(s) == IF s = <<>> THEN 0 ELSE Head(s) + SumSeq(Tail(s))

RECURSIVE MinSeq(_)
MinSeq(s) ==
    IF Len(s) = 1 THEN s[1]
    ELSE LET m == MinSeq(Tail(s)) IN IF s[1] <= m THEN s[1] ELSE m

RECURSIVE MaxSeq(_)
MaxSeq(s) ==
    IF Len(s) = 1 THEN s[1]
    ELSE LET m == MaxSeq(Tail(s)) IN IF s[1] >= m THEN s[1] ELSE m

(***************************************************************************)
(* Incidents: ConnectionHistory._calculate_incidents                       *)
(***************************************************************************)
\* the earlier segmentation, in which only a down row belongs to an incident
IsIncident_DownOnly(entry) == entry.status = "down"

IsIncident(entry) == entry.status \in {"down", "unknown"}

\* round(duration.total_seconds() / 60, 1), in tenths of a minute
DurationMinutes(start_time, end_time) == RoundHalfEven((end_time - start_time) * 10, 60)

\* str.title() of a status
Title(status) ==
    CASE status = "down"    -> "Down"
      [] status = "unknown" -> "Unknown"
      [] OTHER              -> "Up"

\* ', '.join(s.title() for s in status_types)
RECURSIVE JoinTitles(_)
JoinTitles(status_types) ==
    IF Len(status_types) = 1 THEN Title(status_types[1])
    ELSE Title(status_types[1]) \o ", " \o JoinTitles(Tail(status_types))

\* the readable description of the statuses of an incident
StatusDesc(status_types) ==
    IF Len(status_types) = 1 THEN Title(status_types[1])
    ELSE "Mixed (" \o JoinTitles(status_types) \o ")"

\* the error message of an incident replaced by every later one
IncidentStep_LastMessage(acc, entry) ==
    LET cur == acc.current_incident IN
    IF IsIncident(entry) /\ cur = None THEN
        [acc EXCEPT !.current_incident = Some(
            [start_time       |-> entry.timestamp,
             end_time         |-> None,
             duration_minutes |-> 0,
             error_message    |-> entry.error_message,
             status_types     |-> <<entry.status>>])]
    ELSE IF IsIncident(entry) /\ cur # None THEN
        LET c1 == IF TruthyStr(entry.error_message)
                  THEN [cur[1] EXCEPT !.error_message = entry.error_message]
                  ELSE cur[1]
            c2 == IF \A i \in DOMAIN c1.status_types : c1.status_types[i] # entry.status
                  THEN [c1 EXCEPT !.status_types = Append(@, entry.status)]
                  ELSE c1
        IN  [acc EXCEPT !.current_incident = Some(c2)]
    ELSE IF entry.status = "up" /\ cur # None THEN
        LET closed == [start_time       |-> cur[1].start_time,
                       end_time         |-> Some(entry.timestamp),
                       duration_minutes |-> DurationMinutes(cur[1].start_time, entry.timestamp),
                       error_message    |-> cur[1].error_message,
                       status_types     |-> cur[1].status_types,
                       status_desc      |-> StatusDesc(cur[1].status_types)]
        IN  [incidents |-> Append(acc.incidents, closed), current_incident |-> None]
    ELSE acc

\* One iteration of the loop over entries; acc is (incidents, current_incident).
IncidentStep(acc, entry) ==
    LET cur == acc.current_incident IN
    IF IsIncident(entry) /\ cur = None THEN
        [acc EXCEPT !.current_incident = Some(
            [start_time       |-> entry.timestamp,
             end_time         |-> None,
             duration_minutes |-> 0,
             error_message    |-> entry.error_message,
             status_types     |-> <<entry.status>>])]
    ELSE IF IsIncident(entry) /\ cur # None THEN
        LET c1 == IF TruthyStr(entry.error_message) /\ ~TruthyStr(cur[1].error_message)
                  THEN [cur[1] EXCEPT !.error_message = entry.error_message]
                  ELSE cur[1]
            c2 == IF \A i \in DOMAIN c1.status_types : c1.status_types[i] # entry.status
                  THEN [c1 EXCEPT !.status_types = Append(@, entry.status)]
                  ELSE c1
        IN  [acc EXCEPT !.current_incident = Some(c2)]
    ELSE IF entry.status = "up" /\ cur # None THEN
        LET closed == [start_time       |-> cur[1].start_time,
                       end_time         |-> Some(entry.timestamp),
                       duration_minutes |-> DurationMinutes(cur[1].start_time, entry.timestamp),
                       error_message    |-> cur[1].error_message,
                       status_types     |-> cur[1].status_types,
                       status_desc      |-> StatusDesc(cur[1].status_types)]
        IN  [incidents |-> Append(acc.incidents, closed), current_incident |-> None]
    ELSE acc

RECURSIVE IncidentLoop(_, _)
IncidentLoop(acc, es) ==
    IF es = <<>> THEN acc
    \* an up row outside an incident leaves both as they are
    ELSE IF acc.current_incident = None /\ ~IsIncident(Head(es))
    THEN IncidentLoop(acc, Tail(es))
    ELSE IncidentLoop(IncidentStep(acc, Head(es)), Tail(es))

\* an open incident appended as it stands
OngoingIncident_LeftOpen(cur, utcnow) == cur

\* An incident still open after the last entry ends at utcnow and is flagged
\* ongoing; only such an incident has the key "ongoing".
OngoingIncident(cur, utcnow) ==
    [start_time       |-> cur.start_time,
     end_time         |-> Some(utcnow),
     duration_minutes |-> DurationMinutes(cur.start_time, utcnow),
     error_message    |-> cur.error_message,
     status_types     |-> cur.status_types,
     status_desc      |-> StatusDesc(cur.status_types),
     ongoing          |-> TRUE]

\* every incident, closed or not, given the time of the call as its end
CalculateIncidents_AllEndNow(es, utcnow) ==
    LET acc == IncidentLoop([incidents |-> <<>>, current_incident |-> None], es)
        all == IF acc.current_incident # None
               THEN Append(acc.incidents, OngoingIncident(acc.current_incident[1], utcnow))
               ELSE acc.incidents
    IN  [k \in DOMAIN all |-> [all[k] EXCEPT !.end_time = Some(utcnow)]]

CalculateIncidents(es, utcnow) ==
    LET acc == IncidentLoop([incidents |-> <<>>, current_incident |-> None], es) IN
    IF acc.current_incident # None
    THEN Append(acc.incidents, OngoingIncident(acc.current_incident[1], utcnow))
    ELSE acc.incidents

(***************************************************************************)
(* The store's queries.  ORDER BY timestamp leaves the order of rows with  *)
(* equal timestamps to the database; tie is the order it happens to pick,  *)
(* by ascending or by descending id.                                       *)
(***************************************************************************)
TieOrders == {"id_asc", "id_desc"}

Precedes(a, b, tie) ==
    \/ a.timestamp < b.timestamp
    \/ a.timestamp = b.timestamp /\ (IF tie = "id_asc" THEN a.id < b.id ELSE a.id > b.id)

RECURSIVE InsertSorted(_, _, _)
InsertSorted(row, sorted, tie) ==
    IF sorted = <<>> THEN <<row>>
    ELSE IF Precedes(row, Head(sorted), tie) THEN <<row>> \o sorted
    ELSE <<Head(sorted)>> \o InsertSorted(row, Tail(sorted), tie)

RECURSIVE OrderByTimestampAsc(_, _)
OrderByTimestampAsc(rows, tie) ==
    IF rows = <<>> THEN <<>>
    ELSE InsertSorted(Head(rows), OrderByTimestampAsc(Tail(rows), tie), tie)

Reverse(s) == [i \in 1..Len(s) |-> s[Len(s) + 1 - i]]

OrderByTimestampDesc(rows, tie) == Reverse(OrderByTimestampAsc(rows, tie))

Limit(rows, n) == SubSeq(rows, 1, IF Len(rows) < n THEN Len(rows) ELSE n)

\* filter(connection_id == c, timestamp >= cutoff_time).order_by(timestamp.asc())
RangeQuery(rows, c, cutoff_time, tie) ==
    LET InWindow(r) == r.connection_id = c /\ r.timestamp >= cutoff_time
    IN  OrderByTimestampAsc(SelectSeq(rows, InWindow), tie)

(***************************************************************************)
(* Daily rollup: _count_incidents_for_date, _calculate_daily_stats         *)
(***************************************************************************)
\* only the incidents that start on the day
CountIncidentsForDate_StartDay(target_date, incidents, utcnow) ==
    Cardinality({i \in DOMAIN incidents : Date(incidents[i].start_time) = target_date})

CountIncidentsForDate(target_date, incidents, utcnow) ==
    LET EndDate(inc) == IF inc.end_time # None THEN Date(inc.end_time[1]) ELSE Date(utcnow)
    IN  Cardinality({i \in DOMAIN incidents :
            /\ Date(incidents[i].start_time) <= target_date
            /\ target_date <= EndDate(incidents[i])})

\* round(uptime, 1) of the day's uptime, kept in hundredths of a percent
DailyUptime(up, total_checks) ==
    IF total_checks > 0 THEN 10 * RoundHalfEven(up * 1000, total_checks) ELSE 0

\* round(avg, 2) if avg else None, in hundredths
RoundedAverage(times) ==
    IF times # <<>> /\ SumSeq(times) # 0
    THEN Some(RoundHalfEven(SumSeq(times) * 100, Len(times)))
    ELSE None

DayEntry(es, current_date, incidents, utcnow) ==
    LET OnDay(e)  == Date(e.timestamp) = current_date
        day       == SelectSeq(es, OnDay)
        IsUp(e)   == e.status = "up"
        IsDown(e) == e.status = "down"
        IsUnk(e)  == e.status = "unknown"
        Timed(e)  == TruthyNum(e.response_time) /\ e.status = "up"
        timed     == SelectSeq(day, Timed)
        up        == Len(SelectSeq(day, IsUp))
        total     == up + Len(SelectSeq(day, IsDown)) + Len(SelectSeq(day, IsUnk))
    IN  [date              |-> current_date,
         total_checks      |-> total,
         uptime_percentage |-> DailyUptime(up, total),
         avg_response_time |-> RoundedAverage([i \in DOMAIN timed |-> timed[i].response_time[1]]),
         incidents_count   |-> CountIncidentsForDate(current_date, incidents, utcnow)]

\* only the days that have rows
CalculateDailyStats_SkipEmpty(es, days, incidents, utcnow) ==
    LET start_date == Date(utcnow - (days - 1) * Day)
        all        == [i \in 1..days |-> DayEntry(es, start_date + (i - 1), incidents, utcnow)]
        HasRows(d) == d.total_checks > 0
    IN  SelectSeq(all, HasRows)

\* every day given the figures of the whole window
CalculateDailyStats_WholeWindow(es, days, incidents, utcnow) ==
    LET start_date == Date(utcnow - (days - 1) * Day)
        Redated(d) == [i \in DOMAIN es |-> [es[i] EXCEPT !.timestamp = d * Day]]
    IN  [i \in 1..days |->
            DayEntry(Redated(start_date + (i - 1)), start_date + (i - 1), incidents, utcnow)]

CalculateDailyStats(es, days, incidents, utcnow) ==
    LET start_date == Date(utcnow - (days - 1) * Day)
    IN  [i \in 1..days |-> DayEntry(es, start_date + (i - 1), incidents, utcnow)]

(***************************************************************************)
(* ConnectionHistory.get_connection_statistics                             *)
(***************************************************************************)
\* The report of a window without rows; it has no min_ and max_response_time.
EmptyReport(cutoff_time, utcnow) ==
    [total_checks      |-> 0,
     uptime_percentage |-> 0,
     avg_response_time |-> None,
     incidents         |-> <<>>,
     daily_stats       |-> <<>>,
     period_start      |-> cutoff_time,
     period_end        |-> utcnow]

\* every row that is not down counted as up
UpChecks_NotDown(es) == Cardinality({i \in DOMAIN es : es[i].status # "down"})

UpChecks(es) == Cardinality({i \in DOMAIN es : es[i].status = "up"})

\* round(up_checks / total_checks * 100, 2), in hundredths of a percent
UptimePercentage(es) ==
    IF Len(es) > 0 THEN RoundHalfEven(UpChecks(es) * 10000, Len(es)) ELSE 0

ValidResponseTimes(es) ==
    LET Valid(e) == e.response_time # None /\ e.status = "up"
        valid    == SelectSeq(es, Valid)
    IN  [i \in DOMAIN valid |-> valid[i].response_time[1]]

Statistics(es, days, cutoff_time, utcnow) ==
    IF es = <<>> THEN EmptyReport(cutoff_time, utcnow)
    ELSE
        LET valid     == ValidResponseTimes(es)
            incidents == CalculateIncidents(es, utcnow)
        IN  [total_checks      |-> Len(es),
             uptime_percentage |-> UptimePercentage(es),
             avg_response_time |-> RoundedAverage(valid),
             min_response_time |-> IF valid # <<>> THEN Some(100 * MinSeq(valid)) ELSE None,
             max_response_time |-> IF valid # <<>> THEN Some(100 * MaxSeq(valid)) ELSE None,
             incidents         |-> incidents,
             daily_stats       |-> CalculateDailyStats(es, days, incidents, utcnow),
             period_start      |-> cutoff_time,
             period_end        |-> utcnow]

\* The handler: the range query, then the report.
GetConnectionStatistics(c, days, tie) ==
    LET cutoff_time == now - days * Day
        es          == RangeQuery(history, c, cutoff_time, tie)
    IN  /\ args' = Some([op |-> "statistics", connection_id |-> c, days |-> days])
        /\ entries' = es
        /\ report' = Some(Statistics(es, days, cutoff_time, now))
        /\ UNCHANGED <<storeVars, medianOut, checkVars>>

(***************************************************************************)
(* Appending: ConnectionHistory.add_check_result and cleanup_old_data      *)
(***************************************************************************)
RetentionDays == 7

\* the rows left without deleting any
CleanupOldData_KeepsAll(rows, c, retention_days, utcnow) == rows

\* the rows older than the cutoff deleted whatever their connection
CleanupOldData_AllTargets(rows, c, retention_days, utcnow) ==
    LET cutoff_date == utcnow - retention_days * Day
        Kept(r)     == ~(r.timestamp < cutoff_date)
    IN  SelectSeq(rows, Kept)

\* Deletes the rows older than the cutoff, those of connection c only
\* when c is truthy.
CleanupOldData(rows, c, retention_days, utcnow) ==
    LET cutoff_date == utcnow - retention_days * Day
        Deleted(r)  == r.timestamp < cutoff_date /\ (c # 0 => r.connection_id = c)
        Kept(r)     == ~Deleted(r)
    IN  SelectSeq(rows, Kept)

\* The new row is flushed, with timestamp utcnow, by the count() of the
\* cleanup; the commit makes both the insert and the delete visible.
AddCheckResult(c, status, response_time, error_message) ==
    LET history_entry == Row(nextId, c, now, status, response_time, error_message)
    IN  /\ history' = CleanupOldData(Append(history, history_entry), c, RetentionDays, now)
        /\ nextId' = nextId + 1

(***************************************************************************)
(* ConnectionHistory.create_sample_data.  The code stamps a row every 10   *)
(* minutes of each day, today included, from 00:00 to 23:50; the model     *)
(* keeps the minutes of SampleMinutes.  random picks the status of a row.  *)
(***************************************************************************)
SampleMinutes == <<0, 1080>>

\* (status, response_time, error_message) of a sample row
SampleOutcomes ==
    { <<"up", Some(100), None>>,
      <<"down", None, Some("Simulated down status")>>,
      <<"unknown", None, Some("Simulated unknown status")>> }

\* the timestamp of the i-th sample row: the days are the last days days,
\* oldest first, and within a day the minutes ascend
SampleTimestamp(i, days, utcnow) ==
    LET day    == (i - 1) \div Len(SampleMinutes)
        minute == SampleMinutes[((i - 1) % Len(SampleMinutes)) + 1]
    IN  Date(utcnow - (days - 1 - day) * Day) * Day + minute * 60

\* Rows are created only for a connection that has none.
CreateSampleData(c, days) ==
    /\ IF \E i \in DOMAIN history : history[i].connection_id = c
       THEN UNCHANGED <<history, nextId>>
       ELSE \E oc \in [1..(days * Len(SampleMinutes)) -> SampleOutcomes] :
               /\ history' = history \o
                     [i \in DOMAIN oc |->
                         Row(nextId + i - 1, c, SampleTimestamp(i, days, now),
                             oc[i][1], oc[i][2], oc[i][3])]
               /\ nextId' = nextId + Len(oc)
    /\ UNCHANGED <<now, queryVars, checkVars>>

(***************************************************************************)
(* ConnectionHistory.get_median_response_time                              *)
(***************************************************************************)
RECURSIVE InsertNumber(_, _)
InsertNumber(x, sorted) ==
    IF sorted = <<>> THEN <<x>>
    ELSE IF x <= Head(sorted) THEN <<x>> \o sorted
    ELSE <<Head(sorted)>> \o InsertNumber(x, Tail(sorted))

RECURSIVE Sorted(_)
Sorted(values) ==
    IF values = <<>> THEN <<>> ELSE InsertNumber(Head(values), Sorted(Tail(values)))

\* the upper of the two central values for an even count
Median_UpperMiddle(values) ==
    LET data == Sorted(values) IN 100 * data[Len(data) \div 2 + 1]

\* statistics.median of a non-empty list, in hundredths
Median(values) ==
    LET data == Sorted(values)
        n    == Len(data)
        i    == n \div 2
    IN  IF n % 2 = 1 THEN 100 * data[i + 1]
        ELSE 50 * (data[i] + data[i + 1])

GetMedianResponseTime(c, periods, tie) ==
    LET Qualifies(r)   == /\ r.connection_id = c
                          /\ r.response_time # None
                          /\ r.status = "up"
        recent_entries == Limit(OrderByTimestampDesc(SelectSeq(history, Qualifies), tie),
                                periods)
        response_times == [i \in DOMAIN recent_entries |->
                              recent_entries[i].response_time[1]]
    IN  /\ args' = Some([op |-> "median", connection_id |-> c, periods |-> periods])
        /\ entries' = recent_entries
        /\ medianOut' = IF recent_entries = <<>> THEN None
                        ELSE Some(Median(response_times))
        /\ UNCHANGED <<storeVars, report, checkVars>>

(***************************************************************************)
(* Connection.get_chart_history                                            *)
(***************************************************************************)
\* filter_by(connection_id=c).order_by(timestamp.desc()).limit(limit)
RecentWindow(rows, c, limit, tie) ==
    LET OfConnection(r) == r.connection_id = c
    IN  Limit(OrderByTimestampDesc(SelectSeq(rows, OfConnection), tie), limit)

\* The handler: the query, then the rows turned oldest first.
GetChartHistory(c, limit, tie) ==
    LET recent_entries == RecentWindow(history, c, limit, tie)
    IN  /\ args' = Some([op |-> "chart", connection_id |-> c, limit |-> limit])
        /\ entries' = recent_entries
        /\ report' = Some([chart |-> Reverse(recent_entries)])
        /\ UNCHANGED <<storeVars, medianOut, checkVars>>

(***************************************************************************)
(* The target checker: utils/connection_checker.py.  env is what the       *)
(* network and the operating system do to the probe; a checker returns a   *)
(* result (status, response_time, error) or raises.                        *)
(***************************************************************************)
Result(status, response_time, error) ==
    [status |-> status, response_time |-> response_time, error |-> error]

\* an exception e leaving a function, str(e) = msg
Raise(msg) == [raised |-> msg]

IsRaise(r) == "raised" \in DOMAIN r

Env(outcome, code, ms, reported, msg) ==
    [outcome |-> outcome, code |-> code, ms |-> ms, reported |-> reported, msg |-> msg]

\* f'HTTP {response.status_code}: {response.reason}'
HttpError(code) ==
    CASE code = 404 -> "HTTP 404: Not Found"
      [] code = 500 -> "HTTP 500: Internal Server Error"
      [] OTHER      -> "HTTP 503: Service Unavailable"

\* f'Connection failed (error code: {result})'
ConnectError(code) ==
    CASE code = 111 -> "Connection failed (error code: 111)"
      [] code = 115 -> "Connection failed (error code: 115)"
      [] OTHER      -> "Connection failed (error code: 11)"

\* f'Unknown connection type: {connection.connection_type}'
UnknownType(connection_type) ==
    CASE connection_type = "ftp" -> "Unknown connection type: ftp"
      [] OTHER                   -> "Unknown connection type: "

\* requests refuses a timeout that is not positive with a ValueError
InvalidTimeout(connection) ==
    connection.timeout # None /\ connection.timeout[1] <= 0

\* only a status code below 400 counted as up
CheckHttp_AuthDown(connection, env) ==
    IF InvalidTimeout(connection) THEN Raise("Invalid timeout")
    ELSE CASE env.outcome = "response" ->
                IF env.code < 400 THEN Result("up", Some(env.ms), None)
                ELSE Result("down", Some(env.ms), Some(HttpError(env.code)))
           [] env.outcome = "Timeout" -> Result("down", None, Some("Connection timeout"))
           [] env.outcome = "ConnectionError" -> Result("down", None, Some("Connection refused"))
           [] env.outcome = "RequestException" -> Result("down", None, Some(env.msg))
           [] OTHER -> Raise(env.msg)

CheckHttp(connection, env) ==
    IF InvalidTimeout(connection) THEN Raise("Invalid timeout")
    ELSE CASE env.outcome = "response" ->
                IF env.code < 400 \/ env.code \in {401, 403} THEN
                    IF env.code = 401
                    THEN Result("up", Some(env.ms), Some("Service up (authentication required)"))
                    ELSE IF env.code = 403
                    THEN Result("up", Some(env.ms),
                                Some("Service up (access forbidden but responsive)"))
                    ELSE Result("up", Some(env.ms), None)
                ELSE Result("down", Some(env.ms), Some(HttpError(env.code)))
           [] env.outcome = "Timeout" -> Result("down", None, Some("Connection timeout"))
           [] env.outcome = "ConnectionError" -> Result("down", None, Some("Connection refused"))
           [] env.outcome = "RequestException" -> Result("down", None, Some(env.msg))
           [] OTHER -> Raise(env.msg)

CheckPing(connection, env) ==
    IF connection.timeout = None
    THEN Result("down", None, Some("unsupported operand type(s) for +: 'NoneType' and 'int'"))
    ELSE CASE env.outcome = "exit" ->
                IF env.code = 0
                THEN Result("up", IF env.reported # None THEN env.reported ELSE Some(env.ms),
                            None)
                ELSE Result("down", None, Some(IF env.msg # "" THEN env.msg ELSE "Ping failed"))
           [] env.outcome = "TimeoutExpired" -> Result("down", None, Some("Ping timeout"))
           [] OTHER -> Result("down", None, Some(env.msg))

\* connect_ex to (target, port or 80); the port does not change the outcome
\* the environment picked.
CheckTcp(connection, env) ==
    IF connection.timeout # None /\ connection.timeout[1] < 0
    THEN Result("down", None, Some("Timeout value out of range"))
    ELSE IF connection.timeout = Some(0)
    THEN Result("down", Some(0), Some(ConnectError(115)))
    ELSE CASE env.outcome = "connect_ex" ->
                IF env.code = 0 THEN Result("up", Some(env.ms), None)
                ELSE Result("down", Some(env.ms), Some(ConnectError(env.code)))
           [] env.outcome = "socket.timeout" -> Result("down", None, Some("Connection timeout"))
           [] env.outcome = "gaierror" ->
                Result("down", None, Some("DNS resolution failed: Name or service not known"))
           [] OTHER -> Result("down", None, Some(env.msg))

\* 'mysql' in connection.target.lower() and so on, for the targets of the model
TargetWords(target) ==
    CASE target = "mysql.internal"          -> {"mysql"}
      [] target = "Postgres-MySQL.internal" -> {"mysql", "postgres"}
      [] target = "postgres.internal"       -> {"postgres"}
      [] target = "redis-mongodb.internal"  -> {"redis", "mongodb"}
      [] target = "mongodb.internal"        -> {"mongodb"}
      [] OTHER                              -> {}

\* the substrings tried in the order postgres, mysql, redis, mongodb
DefaultDatabasePort_PostgresFirst(target) ==
    IF "postgres" \in TargetWords(target) THEN 5432
    ELSE IF "mysql" \in TargetWords(target) THEN 3306
    ELSE IF "redis" \in TargetWords(target) THEN 6379
    ELSE IF "mongodb" \in TargetWords(target) THEN 27017
    ELSE 3306

DefaultDatabasePort(target) ==
    IF "mysql" \in TargetWords(target) THEN 3306
    ELSE IF "postgres" \in TargetWords(target) THEN 5432
    ELSE IF "redis" \in TargetWords(target) THEN 6379
    ELSE IF "mongodb" \in TargetWords(target) THEN 27017
    ELSE 3306

\* `if not connection.port`: None and 0 are both no port
NoPort(connection) == ~TruthyNum(connection.port)

\* the connection object after check_connection: _check_database assigns the
\* default port to connection.port
AfterCheck(connection) ==
    IF connection.connection_type = "database" /\ NoPort(connection)
    THEN [connection EXCEPT !.port = Some(DefaultDatabasePort(connection.target))]
    ELSE connection

CheckDatabase(connection, env) == CheckTcp(AfterCheck(connection), env)

\* the port of connect_ex((connection.target, connection.port or 80)), None
\* for a check that opens no socket of its own
ProbedPort(connection) ==
    IF connection.connection_type \in {"tcp", "database"}
    THEN IF NoPort(AfterCheck(connection)) THEN Some(80) ELSE AfterCheck(connection).port
    ELSE None

Dispatch(connection, env) ==
    IF connection.connection_type = "http" THEN CheckHttp(connection, env)
    ELSE IF connection.connection_type = "ping" THEN CheckPing(connection, env)
    ELSE IF connection.connection_type = "tcp" THEN CheckTcp(connection, env)
    ELSE IF connection.connection_type = "database" THEN CheckDatabase(connection, env)
    ELSE Result("unknown", None, Some(UnknownType(connection.connection_type)))

\* check_connection without its except clause
CheckConnection_NoExcept(connection, env) == Dispatch(connection, env)

\* ConnectionChecker.check_connection: except Exception as e gives down, str(e)
CheckConnection(connection, env) ==
    LET r == Dispatch(connection, env)
    IN  IF IsRaise(r) THEN Result("down", None, Some(r.raised)) ELSE r

\* what the environment can do to a probe of each kind
Envs(connection_type) ==
    IF connection_type = "http" THEN
        {Env("response", code, 30, None, "") : code \in {200, 301, 401, 403, 404, 500}}
        \cup {Env(o, 0, 0, None, "") : o \in {"Timeout", "ConnectionError"}}
        \cup {Env("RequestException", 0, 0, None, "Exceeded 30 redirects.")}
        \cup {Env("Exception", 0, 0, None, m) : m \in {"Invalid IPv6 URL", ""}}
    ELSE IF connection_type = "ping" THEN
        {Env("exit", 0, 40, r, "") : r \in {None, Some(2)}}
        \cup {Env("exit", 1, 40, None, m) : m \in {"", "ping: unknown host"}}
        \cup {Env("TimeoutExpired", 0, 0, None, "")}
        \cup {Env("Exception", 0, 0, None, "No such file or directory: 'ping'")}
    ELSE
        {Env("connect_ex", code, 10, None, "") : code \in {0, 111, 11}}
        \cup {Env(o, 0, 0, None, "") : o \in {"socket.timeout", "gaierror"}}
        \cup {Env("Exception", 0, 0, None, "an integer is required")}

(***************************************************************************)
(* States in which no check is made and no target is stored                *)
(***************************************************************************)
MonAsleep ==
    [pc |-> "sleep", queue |-> <<>>, cur |-> 0, obj |-> None, error |-> "",
     loaded |-> {}, checked |-> {}, failed |-> {}, unknown |-> {}]

NoChecks ==
    /\ probe = None
    /\ connections = <<>>
    /\ mon = MonAsleep
    /\ api = <<>>
    /\ begun = 0

(***************************************************************************)
(* Statistics over a stored history: the specification SpecStats           *)
(***************************************************************************)
MaxEntries == 3     \* rows in the table
MaxDays == 2        \* longest window queried, in days

\* What a check leaves in a row: (connection, status, latency, error).
StatsOutcomes ==
    { <<1, "up", Some(20), None>>,
      <<1, "up", Some(0), None>>,
      <<1, "down", None, Some("Connection refused")>>,
      <<1, "down", Some(50), Some("HTTP 500: Internal Server Error")>>,
      <<1, "unknown", None, Some("Unknown connection type: ftp")>>,
      <<2, "down", None, Some("Connection timeout")>> }

\* The queries are made at noon; rows are up to MaxDays + 1 days old.
StatsNow == (MaxDays + 3) * Day + Day \div 2
StatsInstants == {StatsNow - k * Day : k \in 0..(MaxDays + 1)}

InitStats ==
    /\ now = StatsNow
    /\ \E n \in 0..MaxEntries :
         \E ts \in [1..n -> StatsInstants], oc \in [1..n -> StatsOutcomes] :
            /\ \A i \in 1..n : i < n => ts[i] <= ts[i + 1]
            /\ history = [i \in 1..n |->
                            Row(i, oc[i][1], ts[i], oc[i][2], oc[i][3], oc[i][4])]
            /\ nextId = n + 1
    /\ args = None
    /\ entries = <<>>
    /\ report = None
    /\ medianOut = None
    /\ NoChecks

\* one query of the table drawn
NextStats ==
    /\ args = None
    /\ \E c \in {1}, days \in 1..MaxDays, tie \in TieOrders :
          GetConnectionStatistics(c, days, tie)

SpecStats == InitStats /\ [][NextStats]_vars

(***************************************************************************)
(* Statistics over full days of checks: SpecDaily.  The target was checked *)
(* hourly, ChecksPerDay times from 01:00, on some of the last RollupDays   *)
(* days; up to MaxDownPerDay checks of a day, its first, found it down.    *)
(* The query is made at noon of the last day.                              *)
(***************************************************************************)
ChecksPerDay == 10
MaxDownPerDay == 2
RollupDays == 3

Hour == Day \div 24

DailyToday == RollupDays + 2

DailyNow == DailyToday * Day + 12 * Hour

\* (checks, checks that found the target down) of one day
DayLoads == {<<0, 0>>} \cup {<<ChecksPerDay, dn>> : dn \in 0..MaxDownPerDay}

\* the rows of the days, oldest first; loads[k] is the load of the k-th day
RECURSIVE DailyRows(_, _, _)
DailyRows(loads, k, id) ==
    IF k > Len(loads) THEN <<>>
    ELSE LET date == DailyToday - Len(loads) + k
             rows == [j \in 1..loads[k][1] |->
                        IF j <= loads[k][2]
                        THEN Row(id + j - 1, 1, date * Day + j * Hour, "down", None,
                                 Some("Connection refused"))
                        ELSE Row(id + j - 1, 1, date * Day + j * Hour, "up", Some(20), None)]
         IN  rows \o DailyRows(loads, k + 1, id + loads[k][1])

InitDaily ==
    /\ now = DailyNow
    /\ \E loads \in [1..RollupDays -> DayLoads] :
          /\ history = DailyRows(loads, 1, 1)
          /\ nextId = Len(history) + 1
    /\ args = None
    /\ entries = <<>>
    /\ report = None
    /\ medianOut = None
    /\ NoChecks

NextDaily ==
    /\ args = None
    /\ \E days \in 1..RollupDays, tie \in TieOrders : GetConnectionStatistics(1, days, tie)

SpecDaily == InitDaily /\ [][NextDaily]_vars

(***************************************************************************)
(* Incident derivation over longer runs of checks: SpecIncidents.  One     *)
(* connection, checked up to MaxRun times within the last day, two checks  *)
(* either at the same instant or CheckGap seconds apart.                   *)
(***************************************************************************)
MaxRun == 5         \* rows in the table
CheckGap == 90

RunOutcomes ==
    { <<1, "up", Some(20), None>>,
      <<1, "down", None, Some("Connection refused")>>,
      <<1, "unknown", None, Some("Unknown connection type: ftp")>> }

RECURSIVE Timestamps(_, _)
Timestamps(first, gaps) ==
    IF gaps = <<>> THEN <<first>>
    ELSE <<first>> \o Timestamps(first + Head(gaps), Tail(gaps))

InitIncidents ==
    /\ now = StatsNow
    /\ \E n \in 0..MaxRun :
         \E oc \in [1..n -> RunOutcomes], gaps \in [1..(n - 1) -> {0, CheckGap}] :
            LET ts == Timestamps(StatsNow - MaxRun * CheckGap, gaps) IN
            /\ history = [i \in 1..n |->
                            Row(i, oc[i][1], ts[i], oc[i][2], oc[i][3], oc[i][4])]
            /\ nextId = n + 1
    /\ args = None
    /\ entries = <<>>
    /\ report = None
    /\ medianOut = None
    /\ NoChecks

NextIncidents ==
    /\ args = None
    /\ \E tie \in TieOrders : GetConnectionStatistics(1, 1, tie)

SpecIncidents == InitIncidents /\ [][NextIncidents]_vars

(***************************************************************************)
(* Properties of incident derivation                                       *)
(***************************************************************************)
Statuses(es) == [i \in DOMAIN es |-> es[i].status]

\* the first row of each maximal run of rows that are not up
RunStarts(es) ==
    {i \in DOMAIN es : es[i].status # "up" /\ (i = 1 \/ es[i - 1].status = "up")}

\* the last row of the run that starts at row i
RunEnd(es, i) ==
    CHOOSE j \in i..Len(es) :
        /\ \A k \in i..j : es[k].status # "up"
        /\ j = Len(es) \/ es[j + 1].status = "up"

NthRunStart(es, k) ==
    CHOOSE i \in RunStarts(es) : Cardinality({j \in RunStarts(es) : j <= i}) = k

Kinds(incident) == {incident.status_types[i] : i \in DOMAIN incident.status_types}

IsOngoing(incident) == "ongoing" \in DOMAIN incident /\ incident.ongoing

\* C1: the incidents of a report are, in order, the maximal runs of rows that
\* are not up among the rows read: one incident per run, starting at the
\* timestamp of the run's first row, its status kinds the statuses occurring in
\* the run.  Up, down, unknown, down, up gives one incident of kinds
\* {down, unknown}; rows that are all up give none.
C1_OneIncidentPerRun ==
    report # None =>
        LET incidents == report[1].incidents IN
        /\ Len(incidents) = Cardinality(RunStarts(entries))
        /\ \A k \in DOMAIN incidents :
              LET i == NthRunStart(entries, k) IN
              /\ incidents[k].start_time = entries[i].timestamp
              /\ Kinds(incidents[k]) = {entries[j].status : j \in i..RunEnd(entries, i)}
        /\ Statuses(entries) = <<"up", "down", "unknown", "down", "up">> =>
              /\ Len(incidents) = 1
              /\ Kinds(incidents[1]) = {"down", "unknown"}
        /\ (\A i \in DOMAIN entries : entries[i].status = "up") => incidents = <<>>

C1_Flapping ==
    /\ report # None
    /\ Statuses(entries) = <<"up", "down", "unknown", "down", "up">>
    /\ Len(report[1].incidents) = 1
    /\ report[1].incidents[1].start_time = entries[2].timestamp

\* C10: when the last row read is not up, the last incident is flagged ongoing,
\* ends at the current time and lasts from its start to the current time
\* (rounded to a tenth of a minute); every other incident is not flagged and
\* ends at the timestamp of the first up row after its run.
C10_OngoingEndsNow ==
    report # None =>
        LET incidents == report[1].incidents IN
        \A k \in DOMAIN incidents :
            LET i    == NthRunStart(entries, k)
                j    == RunEnd(entries, i)
                inc  == incidents[k]
                secs == inc.end_time[1] - inc.start_time
            IN  /\ inc.end_time # None
                /\ IF j = Len(entries)
                   THEN /\ IsOngoing(inc)
                        /\ inc.end_time = Some(now)
                   ELSE /\ ~IsOngoing(inc)
                        /\ inc.end_time = Some(entries[j + 1].timestamp)
                /\ secs >= 0
                /\ 6 * inc.duration_minutes - secs \in -3..3

C10_ClosedThenOngoing ==
    /\ report # None
    /\ Len(report[1].incidents) = 2
    /\ ~IsOngoing(report[1].incidents[1])
    /\ IsOngoing(report[1].incidents[2])
    /\ report[1].incidents[2].duration_minutes > 0

(***************************************************************************)
(* Properties of the statistics report                                     *)
(***************************************************************************)
\* the rows of connection c in the window of the last days days
InWindowOf(c, days) ==
    {i \in DOMAIN history :
        history[i].connection_id = c /\ history[i].timestamp >= now - days * Day}

\* C6: uptime_percentage is 100 * up / total rounded to 2 decimals, where
\* total counts every row of the window, down and unknown included, and up
\* the rows with status up; rows that are all up give 100.00.
C6_UptimePercentage ==
    (report # None /\ entries # <<>>) =>
        LET rows  == InWindowOf(args[1].connection_id, args[1].days)
            total == Cardinality(rows)
            up    == Cardinality({i \in rows : history[i].status = "up"})
            other == Cardinality({i \in rows : history[i].status \in {"down", "unknown"}})
            pct   == report[1].uptime_percentage
        IN  /\ total = up + other
            /\ report[1].total_checks = total
            /\ 2 * (pct * total - 10000 * up) \in (-total)..total
            /\ other = 0 => pct = 10000

C6_OneUpOfThree ==
    /\ report # None
    /\ report[1].total_checks = 3
    /\ report[1].uptime_percentage = 3333
    /\ \E i \in DOMAIN entries : entries[i].status = "unknown"
    /\ \E i \in DOMAIN entries : entries[i].status = "down"

\* The daily rollup has one entry per calendar day, the days days that end
\* today, oldest first, an entry of zeros for a day without rows.
DailyRollupComplete(rep, days) ==
    /\ Len(rep.daily_stats) = days
    /\ \A i \in 1..Len(rep.daily_stats) :
          LET d == rep.daily_stats[i] IN
          /\ d.date = Date(now) - days + i
          /\ (\A k \in DOMAIN entries : Date(entries[k].timestamp) # d.date) =>
                /\ d.total_checks = 0
                /\ d.uptime_percentage = 0
                /\ d.avg_response_time = None

\* C7 as stated: every report has exactly days daily entries.
C7_AlwaysDaysEntries ==
    report # None => DailyRollupComplete(report[1], args[1].days)

\* C7: a report over a window that holds at least one row has exactly days
\* daily entries, one per consecutive calendar day, oldest first, zero-filled
\* for a day without rows.
C7_DaysEntriesWhenRows ==
    (report # None /\ entries # <<>>) => DailyRollupComplete(report[1], args[1].days)

C7_ZeroFilledDay ==
    /\ report # None
    /\ entries # <<>>
    /\ args[1].days = 2
    /\ \E i \in 1..2 : report[1].daily_stats[i].total_checks = 0
    /\ \E i \in 1..2 : report[1].daily_stats[i].total_checks > 0

\* C8: the report of a window without rows has 0 checks, 0 uptime, avg, min
\* and max response time present and null, and no incidents and no days.
C8_ZeroedReport ==
    (report # None /\ entries = <<>>) =>
        /\ report[1].total_checks = 0
        /\ report[1].uptime_percentage = 0
        /\ {"avg_response_time", "min_response_time", "max_response_time"}
              \subseteq DOMAIN report[1]
        /\ report[1].avg_response_time = None
        /\ report[1].min_response_time = None
        /\ report[1].max_response_time = None
        /\ report[1].incidents = <<>>
        /\ report[1].daily_stats = <<>>

C8_EmptyWindowQueried ==
    /\ report # None
    /\ entries = <<>>
    /\ history # <<>>

(***************************************************************************)
(* The store over time: SpecStore.  The clock advances by StoreTick, half  *)
(* the retention period, between appends.                                  *)
(***************************************************************************)
MaxRows == 3        \* rows in the table
MaxTicks == 3       \* advances of the clock

StoreTick == (RetentionDays * Day) \div 2

StoreOutcomes ==
    { <<"up", Some(20), None>>,
      <<"down", None, Some("Connection refused")>> }

InitStore ==
    /\ now = 0
    /\ history = <<>>
    /\ nextId = 1
    /\ args = None
    /\ entries = <<>>
    /\ report = None
    /\ medianOut = None
    /\ NoChecks

Tick ==
    /\ now < MaxTicks * StoreTick
    /\ now' = now + StoreTick
    /\ UNCHANGED <<history, nextId, queryVars, checkVars>>

Append1 ==
    /\ Len(history) < MaxRows
    /\ \E c \in {1, 2}, oc \in StoreOutcomes : AddCheckResult(c, oc[1], oc[2], oc[3])
    /\ UNCHANGED <<now, queryVars, checkVars>>

NextStore == Tick \/ Append1

SpecStore == InitStore /\ [][NextStore]_vars

\* C4: an append for a target leaves the row it inserted in the table and
\* leaves no row of that target with a timestamp before now - 7 days.
C4_AppendEvictsStale ==
    [][nextId' # nextId =>
        \E i \in DOMAIN history' :
            /\ history'[i].id = nextId
            /\ history'[i].timestamp = now
            /\ \A j \in DOMAIN history' :
                  history'[j].connection_id = history'[i].connection_id =>
                      history'[j].timestamp >= now - 7 * Day]_vars

\* rows of a target were evicted by an append whose row is in the table
C4_Evicted ==
    /\ history # <<>>
    /\ history[Len(history)].id = nextId - 1
    /\ history[Len(history)].timestamp = now
    /\ \E k \in 1..(nextId - 1) : \A i \in DOMAIN history : history[i].id # k
    /\ \E i \in DOMAIN history : history[i].timestamp = now - 7 * Day

(***************************************************************************)
(* The median over a stored history: SpecMedian                            *)
(***************************************************************************)
MaxMedianRows == 4  \* rows in the table
MaxPeriods == 3     \* largest periods asked for

MedianOutcomes ==
    { <<1, "up", Some(10), None>>,
      <<1, "up", Some(40), None>>,
      <<1, "down", Some(5), Some("HTTP 500: Internal Server Error")>>,
      <<2, "up", Some(90), None>> }

InitMedian ==
    /\ now = StatsNow
    /\ \E n \in 0..MaxMedianRows :
         \E oc \in [1..n -> MedianOutcomes], gaps \in [1..(n - 1) -> {0, CheckGap}] :
            LET ts == Timestamps(StatsNow - MaxMedianRows * CheckGap, gaps) IN
            /\ history = [i \in 1..n |->
                            Row(i, oc[i][1], ts[i], oc[i][2], oc[i][3], oc[i][4])]
            /\ nextId = n + 1
    /\ args = None
    /\ entries = <<>>
    /\ report = None
    /\ medianOut = None
    /\ NoChecks

NextMedian ==
    /\ args = None
    /\ \E c \in {1, 2}, periods \in 1..MaxPeriods, tie \in TieOrders :
          GetMedianResponseTime(c, periods, tie)

SpecMedian == InitMedian /\ [][NextMedian]_vars

\* the rows of target c that are up and have a latency
Qualifying(c) ==
    {i \in DOMAIN history :
        /\ history[i].connection_id = c
        /\ history[i].status = "up"
        /\ history[i].response_time # None}

Latency(i) == history[i].response_time[1]

\* the p-th smallest latency among the rows S
Ranked(S, p) ==
    CHOOSE v \in {Latency(i) : i \in S} :
        /\ Cardinality({i \in S : Latency(i) < v}) < p
        /\ Cardinality({i \in S : Latency(i) <= v}) >= p

\* twice the textbook median of the latencies of the rows S
TwiceMedian(S) ==
    LET k == Cardinality(S)
    IN  Ranked(S, (k + 1) \div 2) + Ranked(S, k \div 2 + 1)

\* C9: the median returned for (target, periods) is null when the target has
\* no up row with a latency; otherwise it is the textbook median of the
\* latencies of min(periods, k) of its k such rows, none of them older than a
\* qualifying row left out.
C9_MedianOfMostRecent ==
    (args # None /\ args[1].op = "median") =>
        LET Q == Qualifying(args[1].connection_id)
            k == IF Cardinality(Q) < args[1].periods
                 THEN Cardinality(Q) ELSE args[1].periods
        IN  IF Q = {} THEN medianOut = None
            ELSE \E S \in SUBSET Q :
                    /\ Cardinality(S) = k
                    /\ \A i \in S, j \in Q \ S :
                          history[i].timestamp >= history[j].timestamp
                    /\ medianOut = Some(50 * TwiceMedian(S))

\* an even count smaller than periods, beside rows that do not qualify
C9_EvenCountBelowPeriods ==
    /\ args # None /\ args[1].op = "median"
    /\ args[1].periods = 3
    /\ Len(entries) = 2
    /\ medianOut = Some(2500)
    /\ \E i \in DOMAIN history : history[i].status = "down"
    /\ \E i \in DOMAIN history : history[i].connection_id # args[1].connection_id

\* more qualifying rows than periods
C9_LimitedToPeriods ==
    /\ args # None /\ args[1].op = "median"
    /\ Cardinality(Qualifying(args[1].connection_id)) > args[1].periods
    /\ medianOut # None

(***************************************************************************)
(* One probe of one target: SpecChecker                                    *)
(***************************************************************************)
Connection(id, connection_type, target, port, timeout) ==
    [id |-> id, connection_type |-> connection_type, target |-> target,
     port |-> port, timeout |-> timeout, is_active |-> TRUE,
     last_check |-> None, last_status |-> None, last_response_time |-> None,
     last_error |-> None, updated_at |-> None]

ProbedConnections ==
    {Connection(1, k, t, p, to) :
        k \in {"http", "ping", "tcp", "database", "ftp"},
        t \in {"mysql.internal", "Postgres-MySQL.internal", "postgres.internal",
               "redis-mongodb.internal", "mongodb.internal", "example.org"},
        p \in {None, Some(0), Some(8080)},
        to \in {None, Some(-1), Some(0), Some(5)}}

InitChecker ==
    /\ now = 0
    /\ history = <<>>
    /\ nextId = 1
    /\ args = None
    /\ entries = <<>>
    /\ report = None
    /\ medianOut = None
    /\ NoChecks

Probe ==
    /\ probe = None
    /\ \E connection \in ProbedConnections :
          \E env \in Envs(connection.connection_type) :
             probe' = Some([connection |-> connection,
                            env        |-> env,
                            result     |-> CheckConnection(connection, env),
                            port       |-> ProbedPort(connection),
                            after      |-> AfterCheck(connection)])
    /\ UNCHANGED <<storeVars, queryVars, connections, mon, api, begun>>

NextChecker == Probe

SpecChecker == InitChecker /\ [][NextChecker]_vars

\* the probe found the target alive
Alive(connection, env) ==
    CASE connection.connection_type = "http" ->
            /\ ~(connection.timeout # None /\ connection.timeout[1] <= 0)
            /\ env.outcome = "response"
            /\ env.code < 400 \/ env.code = 401 \/ env.code = 403
      [] connection.connection_type = "ping" ->
            connection.timeout # None /\ env.outcome = "exit" /\ env.code = 0
      [] connection.connection_type \in {"tcp", "database"} ->
            /\ connection.timeout = None \/ connection.timeout[1] > 0
            /\ env.outcome = "connect_ex" /\ env.code = 0
      [] OTHER -> FALSE

\* C5: check_connection does not raise, whatever the target and whatever the
\* network does; a probe that did not find the target alive gives status
\* down or unknown with an error message that is not null.
C5_NeverRaises ==
    probe # None =>
        LET r == probe[1].result IN
        /\ ~IsRaise(r)
        /\ r.status \in {"up", "down", "unknown"}
        /\ ~Alive(probe[1].connection, probe[1].env) =>
              r.status \in {"down", "unknown"} /\ r.error # None

\* an exception that _check_http does not catch
C5_UncaughtInHttp ==
    /\ probe # None
    /\ probe[1].connection.connection_type = "http"
    /\ probe[1].env.outcome = "Exception"
    /\ probe[1].result.status = "down"
    /\ probe[1].result.error = Some("Invalid IPv6 URL")

\* C11: every result has the shape of a check result: a latency that is not
\* null only with status up, and an error message that is not null with
\* status down or unknown, for the four kinds of target, an HTTP response of
\* 400 or more other than 401 and 403 and a refused TCP connect included.
C11_CheckResultShape ==
    probe # None =>
        LET r == probe[1].result IN
        /\ r.response_time # None => r.status = "up"
        /\ r.status \in {"down", "unknown"} => r.error # None

\* an HTTP response 404 and a TCP connect that returns 111
C11_RefusedProbed ==
    /\ probe # None
    /\ \/ /\ probe[1].connection.connection_type = "http"
          /\ probe[1].env.outcome = "response" /\ probe[1].env.code = 404
       \/ /\ probe[1].connection.connection_type = "tcp"
          /\ probe[1].env.outcome = "connect_ex" /\ probe[1].env.code = 111
    /\ probe[1].result.status = "down"

\* the request of an HTTP probe was sent and answered
HttpCompleted ==
    /\ probe # None
    /\ probe[1].connection.connection_type = "http"
    /\ probe[1].connection.timeout = None \/ probe[1].connection.timeout[1] > 0
    /\ probe[1].env.outcome = "response"

TimeoutInvalid(connection) ==
    connection.timeout = None \/ connection.timeout[1] <= 0

\* C13: an error of configuration gives an unknown result: a target of a kind
\* other than http, ping, tcp and database gives unknown with 'Unknown
\* connection type: <kind>', and a target of one of the four kinds with a
\* timeout that is null, zero or negative gives unknown too.
C13_ConfigErrorsUnknown ==
    probe # None =>
        LET r          == probe[1].result
            connection == probe[1].connection
        IN
        /\ connection.connection_type \notin {"http", "ping", "tcp", "database"} =>
              /\ r.status = "unknown"
              /\ r.response_time = None
              /\ connection.connection_type = "ftp" =>
                    r.error = Some("Unknown connection type: ftp")
        /\ /\ connection.connection_type \in {"http", "ping", "tcp", "database"}
           /\ TimeoutInvalid(connection)
           => r.status = "unknown"

\* a target of an unknown kind was probed and gave unknown
C13_UnknownKindProbed ==
    /\ probe # None
    /\ probe[1].connection.connection_type = "ftp"
    /\ probe[1].result = Result("unknown", None, Some("Unknown connection type: ftp"))

(***************************************************************************)
(* Connection.update_status, as the session of one process commits it: an  *)
(* UPDATE writes the attributes of the object that differ from the values  *)
(* the session loaded, and the history row is inserted in the same         *)
(* transaction.                                                            *)
(***************************************************************************)
Committed(row, loaded, obj) ==
    [a \in DOMAIN row |-> IF obj[a] # loaded[a] THEN obj[a] ELSE row[a]]

\* the object with the attributes update_status assigns
StatusSet(obj, status, response_time, error) ==
    [obj EXCEPT !.last_check = Some(now),
                !.last_status = Some(status),
                !.last_response_time = response_time,
                !.last_error = error,
                !.updated_at = Some(now)]

UpdateStatus(loaded, obj, status, response_time, error) ==
    /\ connections' = [connections EXCEPT ![obj.id] =
            Committed(@, loaded, StatusSet(obj, status, response_time, error))]
    /\ AddCheckResult(obj.id, status, response_time, error)

ActiveIds == {c \in DOMAIN connections : connections[c].is_active}

RECURSIVE Ascending(_)
Ascending(S) ==
    IF S = {} THEN <<>>
    ELSE LET m == CHOOSE x \in S : \A y \in S : x <= y
         IN  <<m>> \o Ascending(S \ {m})

(***************************************************************************)
(* monitor_service.py: main and monitor_all_connections.  The store may    *)
(* refuse any statement (ok = FALSE): the database is locked or gone.      *)
(***************************************************************************)
MaxChecks == 3      \* checks that a behaviour makes room for

\* what the network does to the probes of the monitored targets
MonitorEnvs(connection_type) ==
    IF connection_type = "http"
    THEN {Env("response", code, 30, None, "") : code \in {200, 500}}
    ELSE {Env("connect_ex", code, 10, None, "") : code \in {0, 111}}

StoreError == "database is locked"

\* an exception that leaves monitor_all_connections and ends the process
OnCycleError_Crash == "crashed"

\* main: except Exception as e: the error is logged and main waits 10 seconds
OnCycleError == "backoff"

\* while True: the wait of 60 or of 10 seconds is over and main calls
\* monitor_all_connections()
MonWake ==
    /\ mon.pc \in {"sleep", "backoff"}
    /\ mon' = [mon EXCEPT !.pc = "start"]
    /\ UNCHANGED <<storeVars, queryVars, probe, connections, api, begun>>

\* monitor_all_connections() creates the application and loads the active
\* connections, or raises.  Once MaxChecks checks have begun the store only
\* refuses.
MonStartCycle ==
    /\ mon.pc = "start"
    /\ \E ok \in IF begun + Cardinality(ActiveIds) <= MaxChecks THEN BOOLEAN ELSE {FALSE} :
          IF ok
          THEN /\ mon' = [MonAsleep EXCEPT !.pc = "loop",
                                           !.queue = Ascending(ActiveIds),
                                           !.loaded = ActiveIds]
               /\ begun' = begun + Cardinality(ActiveIds)
          ELSE /\ mon' = [MonAsleep EXCEPT !.pc = OnCycleError]
               /\ UNCHANGED begun
    /\ UNCHANGED <<storeVars, queryVars, probe, connections, api>>

\* for connection in connections: the probe is sent
MonBeginCheck ==
    /\ mon.pc = "loop"
    /\ mon.queue # <<>>
    /\ mon' = [mon EXCEPT !.pc = "checking",
                          !.cur = Head(mon.queue),
                          !.obj = Some(connections[Head(mon.queue)]),
                          !.checked = @ \cup {Head(mon.queue)}]
    /\ UNCHANGED <<storeVars, queryVars, probe, connections, api, begun>>

\* the probe returns and update_status stores its result, or raises
MonEndCheck ==
    /\ mon.pc = "checking"
    /\ \E env \in MonitorEnvs(mon.obj[1].connection_type), ok \in BOOLEAN :
          LET r == CheckConnection(mon.obj[1], env) IN
          IF ok
          THEN /\ UpdateStatus(mon.obj[1], AfterCheck(mon.obj[1]),
                               r.status, r.response_time, r.error)
               /\ mon' = [mon EXCEPT !.pc = "loop", !.queue = Tail(@),
                                     !.cur = 0, !.obj = None]
          ELSE /\ mon' = [mon EXCEPT !.pc = "handler", !.error = StoreError,
                                     !.failed = @ \cup {mon.cur}]
               /\ UNCHANGED <<history, nextId, connections>>
    /\ UNCHANGED <<now, queryVars, probe, api, begun>>

\* except Exception as e: connection.update_status('unknown', None, str(e));
\* an exception of this update_status leaves monitor_all_connections, and
\* main waits 10 seconds before it calls it again.
MonHandler ==
    /\ mon.pc = "handler"
    /\ \E ok \in BOOLEAN :
          IF ok
          THEN /\ UpdateStatus(mon.obj[1], AfterCheck(mon.obj[1]),
                               "unknown", None, Some(mon.error))
               /\ mon' = [mon EXCEPT !.pc = "loop", !.queue = Tail(@),
                                     !.cur = 0, !.obj = None, !.error = "",
                                     !.unknown = @ \cup {mon.cur}]
          ELSE /\ mon' = [mon EXCEPT !.pc = OnCycleError, !.queue = <<>>,
                                     !.cur = 0, !.obj = None, !.error = ""]
               /\ UNCHANGED <<history, nextId, connections>>
    /\ UNCHANGED <<now, queryVars, probe, api, begun>>

\* the loop over the connections ends: main waits 60 seconds
MonCycleDone ==
    /\ mon.pc = "loop"
    /\ mon.queue = <<>>
    /\ mon' = [mon EXCEPT !.pc = "sleep"]
    /\ UNCHANGED <<storeVars, queryVars, probe, connections, api, begun>>

\* KeyboardInterrupt: the user stops the service, at any point of the loop
MonInterrupt ==
    /\ mon.pc \notin {"stopped", "crashed"}
    /\ mon' = [MonAsleep EXCEPT !.pc = "stopped"]
    /\ UNCHANGED <<storeVars, queryVars, probe, connections, api, begun>>

(***************************************************************************)
(* views/api.py: get_connection_status, check_connection, refresh_dashboard *)
(***************************************************************************)
MaxThreads == 1     \* request threads of the web process

\* user is current_user: the id of the user of the session, None without one
Idle ==
    [pc |-> "idle", endpoint |-> "", queue |-> <<>>, cur |-> 0, obj |-> None,
     user |-> None]

\* the users a request may come from: nobody logged in, or user 1
Users == {None, Some(1)}

\* every view decorated without it
LoginRequired_Absent(user) == TRUE

\* @login_required: the view is called when current_user.is_authenticated
LoginRequired(user) == user # None

\* login_manager.unauthorized(): 302 to login_view 'auth.login'; the view was
\* not called
Redirected(endpoint) == [Idle EXCEPT !.pc = "redirected", !.endpoint = endpoint]

\* the thread has answered its last request
Free(thread) == thread.pc \in {"idle", "redirected"}

\* GET /connections/<id>/status and POST /connections/<id>/check
ApiCheckOne(t, endpoint, id, user) ==
    /\ Free(api[t])
    /\ IF LoginRequired(user)
       THEN /\ begun < MaxChecks
            /\ id \in DOMAIN connections
            /\ api' = [api EXCEPT ![t] = [pc |-> "checking", endpoint |-> endpoint,
                                          queue |-> <<id>>, cur |-> id,
                                          obj |-> Some(connections[id]),
                                          user |-> user]]
            /\ begun' = begun + 1
       ELSE /\ api' = [api EXCEPT ![t] = Redirected(endpoint)]
            /\ UNCHANGED begun
    /\ UNCHANGED <<storeVars, queryVars, probe, connections, mon>>

\* GET /dashboard/refresh
ApiRefresh(t, user) ==
    /\ Free(api[t])
    /\ IF LoginRequired(user)
       THEN /\ begun + Cardinality(ActiveIds) <= MaxChecks
            /\ ActiveIds # {}
            /\ LET ids == Ascending(ActiveIds) IN
               api' = [api EXCEPT ![t] = [pc |-> "checking", endpoint |-> "refresh",
                                          queue |-> ids, cur |-> Head(ids),
                                          obj |-> Some(connections[Head(ids)]),
                                          user |-> user]]
            /\ begun' = begun + Cardinality(ActiveIds)
       ELSE /\ api' = [api EXCEPT ![t] = Redirected("refresh")]
            /\ UNCHANGED begun
    /\ UNCHANGED <<storeVars, queryVars, probe, connections, mon>>

\* the probe returns and update_status stores its result; the handler then
\* answers, or goes on with the next connection of a refresh.  An exception
\* of update_status ends the request.
ApiEndCheck(t) ==
    /\ api[t].pc = "checking"
    /\ \E env \in MonitorEnvs(api[t].obj[1].connection_type), ok \in BOOLEAN :
          LET r    == CheckConnection(api[t].obj[1], env)
              rest == Tail(api[t].queue)
          IN
          IF ok
          THEN /\ UpdateStatus(api[t].obj[1], AfterCheck(api[t].obj[1]),
                               r.status, r.response_time, r.error)
               /\ api' = IF rest # <<>>
                         THEN [api EXCEPT ![t].queue = rest,
                                          ![t].cur = Head(rest),
                                          ![t].obj = Some(connections'[Head(rest)])]
                         ELSE [api EXCEPT ![t] = Idle]
          ELSE /\ api' = [api EXCEPT ![t] = Idle]
               /\ UNCHANGED <<history, nextId, connections>>
    /\ UNCHANGED <<now, queryVars, probe, mon, begun>>

(***************************************************************************)
(* views/api.py: add_connection and update_connection.  data is the JSON   *)
(* or form data of the request: a key that is absent is None, a key that   *)
(* is present holds a string, an integer, a boolean or null.  The name,    *)
(* description and check_interval of a connection play no part in a check  *)
(* and are left out.                                                       *)
(***************************************************************************)
JStr(s) == [t |-> "str", s |-> s, n |-> 0, b |-> FALSE]

JInt(n) == [t |-> "int", s |-> "", n |-> n, b |-> FALSE]

JBool(b) == [t |-> "bool", s |-> "", n |-> 0, b |-> b]

JNull == [t |-> "null", s |-> "", n |-> 0, b |-> FALSE]

Data(connection_type, target, port, timeout, is_active, logo_choice) ==
    [connection_type |-> connection_type, target |-> target, port |-> port,
     timeout |-> timeout, is_active |-> is_active, logo_choice |-> logo_choice]

\* bool(data.get(key))
Truthy(o) ==
    /\ o # None
    /\ CASE o[1].t = "str"  -> o[1].s # ""
         [] o[1].t = "int"  -> o[1].n # 0
         [] o[1].t = "bool" -> o[1].b
         [] OTHER           -> FALSE

\* str.strip(), for the strings of the model
Strip(s) ==
    CASE s = " ping "           -> "ping"
      [] s = " mysql.internal " -> "mysql.internal"
      [] s = " 30 "             -> "30"
      [] OTHER                  -> s

\* int(value): the integer, or the exception raised
IntOf(v) ==
    CASE v.t = "int"  -> [ok |-> TRUE, n |-> v.n, error |-> ""]
      [] v.t = "bool" -> [ok |-> TRUE, n |-> IF v.b THEN 1 ELSE 0, error |-> ""]
      [] v.t = "null" -> [ok |-> FALSE, n |-> 0, error |-> "TypeError"]
      [] OTHER ->
            CASE Strip(v.s) = "30"   -> [ok |-> TRUE, n |-> 30, error |-> ""]
              [] Strip(v.s) = "0"    -> [ok |-> TRUE, n |-> 0, error |-> ""]
              [] Strip(v.s) = "-5"   -> [ok |-> TRUE, n |-> -5, error |-> ""]
              [] Strip(v.s) = "8080" -> [ok |-> TRUE, n |-> 8080, error |-> ""]
              [] OTHER               -> [ok |-> FALSE, n |-> 0, error |-> "ValueError"]

valid_types == {"http", "ping", "tcp", "database"}

DefaultTimeout == 10

\* The connection add_connection builds, or the status it answers instead.
NewConnection(id, data) ==
    IF ~Truthy(data.connection_type) \/ ~Truthy(data.target)
    THEN [status |-> 400]
    ELSE IF data.connection_type[1].t # "str" \/ data.connection_type[1].s \notin valid_types
    THEN [status |-> 400]
    \* connection.logo_filename = logo_filename, before connection is bound
    ELSE IF Truthy(data.logo_choice)
    THEN [status |-> 500]
    ELSE LET port    == IF Truthy(data.port) THEN IntOf(data.port[1])
                        ELSE [ok |-> TRUE, n |-> 0, error |-> ""]
             timeout == IF data.timeout = None
                        THEN [ok |-> TRUE, n |-> DefaultTimeout, error |-> ""]
                        ELSE IntOf(data.timeout[1])
         IN  IF ~port.ok
             THEN [status |-> IF port.error = "ValueError" THEN 400 ELSE 500]
             ELSE IF ~timeout.ok
             THEN [status |-> IF timeout.error = "ValueError" THEN 400 ELSE 500]
             ELSE [status |-> 201,
                   connection |->
                       [Connection(id, Strip(data.connection_type[1].s),
                                   Strip(data.target[1].s),
                                   IF Truthy(data.port) THEN Some(port.n) ELSE None,
                                   Some(timeout.n))
                        EXCEPT !.updated_at = Some(now)]]

\* POST /connections
AddConnection(data) ==
    /\ \E ok \in BOOLEAN :
          LET r == NewConnection(Len(connections) + 1, data) IN
          connections' = IF r.status = 201 /\ ok
                         THEN Append(connections, r.connection)
                         ELSE connections
    /\ UNCHANGED <<storeVars, queryVars, probe, mon, api, begun>>

\* value = int(value) for a port or a timeout that is truthy; a value that is
\* not is assigned as it is (null as None, 0 and False as 0)
IntField(o) ==
    IF Truthy(o) THEN IntOf(IF o[1].t = "str" THEN JStr(Strip(o[1].s)) ELSE o[1])
    ELSE [ok |-> TRUE, n |-> 0, error |-> ""]

AssignedInt(o) ==
    IF Truthy(o) THEN Some(IntField(o).n)
    ELSE IF o[1].t = "null" THEN None ELSE Some(0)

\* value in ["true", "True", True, "1", 1]
ActiveValue(v) ==
    CASE v.t = "str"  -> Strip(v.s) \in {"true", "True", "1"}
      [] v.t = "int"  -> v.n = 1
      [] v.t = "bool" -> v.b
      [] OTHER        -> FALSE

\* The loop over updateable_fields: every key of data is assigned, the
\* connection_type and the timeout as any other; a ValueError of int() ends
\* the request with 400 before the commit.
UpdatedConnection(connection, data) ==
    IF data = Data(None, None, None, None, None, None)
    THEN [status |-> 400]
    ELSE IF ~IntField(data.port).ok \/ ~IntField(data.timeout).ok
    THEN [status |-> 400]
    ELSE [status |-> 200,
          connection |->
              [connection EXCEPT
                  !.connection_type = IF data.connection_type = None THEN @
                                      ELSE Strip(data.connection_type[1].s),
                  !.target = IF data.target = None THEN @ ELSE Strip(data.target[1].s),
                  !.port = IF data.port = None THEN @ ELSE AssignedInt(data.port),
                  !.timeout = IF data.timeout = None THEN @ ELSE AssignedInt(data.timeout),
                  !.is_active = IF data.is_active = None THEN @
                                ELSE ActiveValue(data.is_active[1])]]

\* PUT /connections/<id>; the UPDATE sets updated_at (onupdate)
UpdateConnection(id, data) ==
    /\ id \in DOMAIN connections
    /\ \E ok \in BOOLEAN :
          LET r == UpdatedConnection(connections[id], data) IN
          connections' =
              IF r.status = 200 /\ ok /\ r.connection # connections[id]
              THEN [connections EXCEPT ![id] =
                        [r.connection EXCEPT !.updated_at = Some(now)]]
              ELSE connections
    /\ UNCHANGED <<storeVars, queryVars, probe, mon, api, begun>>

(***************************************************************************)
(* Creating and updating connections: SpecCrud                             *)
(***************************************************************************)
MaxConnections == 2     \* connections created

AddRequests ==
    {Data(Some(JStr("http")), Some(JStr("example.org")), None, None, None, None),
     Data(Some(JStr("tcp")), Some(JStr(" mysql.internal ")), Some(JStr("8080")),
          Some(JStr(" 30 ")), None, None),
     Data(Some(JStr("database")), Some(JStr("mysql.internal")), None,
          Some(JInt(0)), None, None),
     Data(Some(JStr("ping")), Some(JStr("example.org")), None,
          Some(JStr("-5")), None, None),
     Data(Some(JStr("http")), Some(JStr("example.org")), None,
          Some(JStr("soon")), None, None),
     Data(Some(JStr("http")), Some(JStr("example.org")), None, Some(JNull), None, None),
     Data(Some(JStr("ftp")), Some(JStr("example.org")), None, None, None, None),
     Data(Some(JStr(" ping ")), Some(JStr("example.org")), None, None, None, None),
     Data(Some(JStr("http")), Some(JStr("")), None, None, None, None),
     Data(Some(JStr("http")), Some(JStr("example.org")), None, None, None,
          Some(JStr("nginx.png")))}

UpdateRequests ==
    {Data(None, None, None, None, None, None),
     Data(Some(JStr("ftp")), None, None, None, None, None),
     Data(Some(JStr(" ping ")), None, None, None, None, None),
     Data(None, Some(JStr("mysql.internal")), Some(JInt(8080)), None, None, None),
     Data(None, None, Some(JNull), Some(JInt(30)), None, None),
     Data(None, None, None, Some(JInt(0)), None, None),
     Data(None, None, None, Some(JNull), None, None),
     Data(None, None, None, Some(JStr("-5")), None, None),
     Data(Some(JStr("tcp")), None, None, Some(JStr("soon")), None, None),
     Data(None, None, None, None, Some(JStr("true")), None),
     Data(None, None, None, None, Some(JBool(FALSE)), None)}

InitCrud ==
    /\ now = StatsNow
    /\ history = <<>>
    /\ nextId = 1
    /\ args = None
    /\ entries = <<>>
    /\ report = None
    /\ medianOut = None
    /\ NoChecks

AddAny ==
    /\ Len(connections) < MaxConnections
    /\ \E data \in AddRequests : AddConnection(data)

UpdateAny ==
    \E id \in DOMAIN connections, data \in UpdateRequests : UpdateConnection(id, data)

NextCrud == AddAny \/ UpdateAny

SpecCrud == InitCrud /\ [][NextCrud]_vars

\* C14: after any sequence of creations and updates every stored connection
\* has a timeout above 0, and a request leaves the connection_type of every
\* connection that existed before it as it was.
C14_TimeoutPositiveKindFixed ==
    [][\A c \in DOMAIN connections' :
          /\ connections'[c].timeout # None
          /\ connections'[c].timeout[1] > 0
          /\ c \in DOMAIN connections =>
                connections'[c].connection_type = connections[c].connection_type]_vars

\* a connection created as tcp with timeout 30 that no request has changed
C14_CreatedValid ==
    \E c \in DOMAIN connections :
        /\ connections[c].connection_type = "tcp"
        /\ connections[c].target = "mysql.internal"
        /\ connections[c].port = Some(8080)
        /\ connections[c].timeout = Some(30)

(***************************************************************************)
(* The monitor process beside the web process: SpecMonitor.  The requests  *)
(* are those of a user who is logged in.                                   *)
(***************************************************************************)
MonitoredConnections ==
    <<Connection(1, "http", "example.org", None, Some(5)),
      Connection(2, "database", "postgres.internal", None, Some(10))>>

InitMonitor ==
    /\ now = StatsNow
    /\ history = <<>>
    /\ nextId = 1
    /\ args = None
    /\ entries = <<>>
    /\ report = None
    /\ medianOut = None
    /\ probe = None
    /\ connections = MonitoredConnections
    /\ mon = MonAsleep
    /\ api = [t \in 1..MaxThreads |-> Idle]
    /\ begun = 0

NextMonitor ==
    \/ MonWake
    \/ MonStartCycle
    \/ MonBeginCheck
    \/ MonEndCheck
    \/ MonHandler
    \/ MonCycleDone
    \/ MonInterrupt
    \/ \E t \in DOMAIN api, id \in DOMAIN connections :
          \/ ApiCheckOne(t, "status", id, Some(1))
          \/ ApiCheckOne(t, "check", id, Some(1))
    \/ \E t \in DOMAIN api : ApiRefresh(t, Some(1))
    \/ \E t \in DOMAIN api : ApiEndCheck(t)

SpecMonitor == InitMonitor /\ [][NextMonitor]_vars

\* The monitor is a process of its own that the operating system keeps
\* running: a wait ends, a probe returns within its timeout, a statement of
\* the store returns or raises.  Requests and interrupts may never come.
SpecMonitorLive ==
    /\ InitMonitor
    /\ [][NextMonitor]_vars
    /\ WF_vars(MonWake)
    /\ WF_vars(MonStartCycle)
    /\ WF_vars(MonBeginCheck)
    /\ WF_vars(MonEndCheck)
    /\ WF_vars(MonHandler)
    /\ WF_vars(MonCycleDone)

\* the processes that are between the start of a probe of target c and the
\* end of the update_status that stores it: the monitor (0), request threads
Checking(c) ==
    (IF mon.pc \in {"checking", "handler"} /\ mon.cur = c THEN {0} ELSE {})
    \cup {t \in DOMAIN api : api[t].pc = "checking" /\ api[t].cur = c}

\* C2: at most one check and update_status of a target is in progress at a
\* time, the checks of the monitor loop and those of the API handlers counted
\* together.
C2_OneCheckPerTarget ==
    \A c \in DOMAIN connections : Cardinality(Checking(c)) <= 1

\* C3: when a cycle of the monitor ends, every target it loaded was checked
\* in it, and every target whose check or recording failed has an unknown
\* result with the error text.
C3_CycleChecksEveryTarget ==
    mon.pc \in {"sleep", "backoff"} =>
        /\ mon.loaded \subseteq mon.checked
        /\ mon.failed \subseteq mon.unknown

\* a failure of the first recording alone does not end the cycle
C3_HandlerRecordsUnknown ==
    /\ mon.pc = "sleep"
    /\ mon.failed # {}
    /\ mon.failed \subseteq mon.unknown
    /\ mon.loaded = mon.checked
    /\ \E i \in DOMAIN history :
          history[i].status = "unknown" /\ history[i].error_message = Some(StoreError)

\* C15: the monitor loop does not end but by an interrupt of the user: every
\* cycle ends, completed or with its error logged, in a wait, and after every
\* wait, of a cycle that completed or of one that raised, a new cycle starts.
C15_LoopRestarts ==
    /\ []<>(mon.pc \in {"sleep", "backoff", "stopped"})
    /\ [](mon.pc \in {"sleep", "backoff"} => <>(mon.pc \in {"start", "stopped"}))

\* a new cycle starts after a cycle that an exception ended
C15_RestartAfterError ==
    /\ mon.pc = "start"
    /\ mon.failed # {}
    /\ ~(mon.loaded \subseteq mon.checked)

\* the rows of target c, and the one inserted last
RowsOf(c) == {i \in DOMAIN history : history[i].connection_id = c}

LastRowOf(c) ==
    history[CHOOSE i \in RowsOf(c) : \A j \in RowsOf(c) : history[j].id <= history[i].id]

\* C16: in every committed state, however the checks of the monitor loop and
\* of the API handlers interleave, the cached last_status, last_response_time
\* and last_error of a target that has history are the status, latency and
\* error of its most recent history row.
C16_CacheMatchesLastRow ==
    \A c \in DOMAIN connections :
        RowsOf(c) # {} =>
            /\ connections[c].last_status = Some(LastRowOf(c).status)
            /\ connections[c].last_response_time = LastRowOf(c).response_time
            /\ connections[c].last_error = LastRowOf(c).error_message

\* two checks of one target were stored, and the cache matches the later
C16_TwoChecksStored ==
    \E c \in DOMAIN connections :
        /\ Cardinality(RowsOf(c)) >= 2
        /\ connections[c].last_status = Some(LastRowOf(c).status)
        /\ connections[c].last_response_time = LastRowOf(c).response_time
        /\ connections[c].last_error = LastRowOf(c).error_message

(***************************************************************************)
(* Further properties of the statistics report                             *)
(***************************************************************************)
\* the rows read that are up and have a latency
UpWithLatency ==
    {i \in DOMAIN entries : entries[i].status = "up" /\ entries[i].response_time # None}

\* the sum of the latencies of the rows S of entries
RECURSIVE LatencySum(_)
LatencySum(S) ==
    IF S = {} THEN 0
    ELSE LET i == CHOOSE j \in S : TRUE
         IN  entries[i].response_time[1] + LatencySum(S \ {i})

\* C17: in the report of a window that holds rows, avg, min and max response
\* time are taken over the rows that are up and have a latency: each of the
\* three is null exactly when there is no such row, a latency of 0 included
\* among those that count; otherwise min and max are the least and the
\* greatest of these latencies, avg is their mean rounded to 2 decimals, and
\* min <= avg <= max.
C17_LatencyAggregates ==
    (report # None /\ entries # <<>>) =>
        LET Q   == UpWithLatency
            rep == report[1]
        IN  /\ rep.min_response_time = None <=> Q = {}
            /\ rep.max_response_time = None <=> Q = {}
            /\ rep.avg_response_time = None <=> Q = {}
            /\ Q # {} =>
                  /\ \E i \in Q : rep.min_response_time[1] = 100 * entries[i].response_time[1]
                  /\ \A i \in Q : rep.min_response_time[1] <= 100 * entries[i].response_time[1]
                  /\ \E i \in Q : rep.max_response_time[1] = 100 * entries[i].response_time[1]
                  /\ \A i \in Q : rep.max_response_time[1] >= 100 * entries[i].response_time[1]
                  /\ 2 * (rep.avg_response_time[1] * Cardinality(Q) - 100 * LatencySum(Q))
                        \in (-Cardinality(Q))..Cardinality(Q)
                  /\ rep.min_response_time[1] <= rep.avg_response_time[1]
                  /\ rep.avg_response_time[1] <= rep.max_response_time[1]

\* latencies 20 and 0 beside a down row with a latency: avg 10, min 0, max 20
C17_MeanOfTwo ==
    /\ report # None
    /\ Cardinality(UpWithLatency) = 2
    /\ \E i \in DOMAIN entries : entries[i].status = "down" /\ entries[i].response_time # None
    /\ report[1].avg_response_time = Some(1000)
    /\ report[1].min_response_time = Some(0)
    /\ report[1].max_response_time = Some(2000)

\* C18: every percentage of a report, the overall uptime_percentage and the
\* uptime_percentage of each day of the rollup, is the exact percentage
\* rounded to 2 decimals; every latency is rounded to 2 decimals; every
\* incident duration is rounded to 1 decimal minute.
C18_RoundedToTwoDecimals ==
    (report # None /\ entries # <<>>) =>
        LET rep   == report[1]
            up    == Cardinality({i \in DOMAIN entries : entries[i].status = "up"})
            total == Len(entries)
        IN  /\ 2 * (rep.uptime_percentage * total - 10000 * up) \in (-total)..total
            /\ \A d \in DOMAIN rep.daily_stats :
                  LET day   == rep.daily_stats[d]
                      rows  == {i \in DOMAIN entries : Date(entries[i].timestamp) = day.date}
                      dup   == Cardinality({i \in rows : entries[i].status = "up"})
                      dtot  == Cardinality(rows)
                  IN  2 * (day.uptime_percentage * dtot - 10000 * dup) \in (-dtot)..dtot
            /\ \A k \in DOMAIN rep.incidents :
                  LET inc == rep.incidents[k]
                  IN  2 * (inc.duration_minutes * 60 - (inc.end_time[1] - inc.start_time) * 10)
                        \in (-60)..60
            /\ UpWithLatency # {} /\ rep.avg_response_time # None =>
                  2 * (rep.avg_response_time[1] * Cardinality(UpWithLatency)
                        - 100 * LatencySum(UpWithLatency))
                     \in (-Cardinality(UpWithLatency))..Cardinality(UpWithLatency)

\* a day with one row up of three, reported beside an overall 33.33
C18_ThirdOfADay ==
    /\ report # None
    /\ report[1].total_checks = 3
    /\ report[1].uptime_percentage = 3333
    /\ \E d \in DOMAIN report[1].daily_stats : report[1].daily_stats[d].total_checks = 3

(***************************************************************************)
(* Further properties of the store                                         *)
(***************************************************************************)
\* C20: an append for a target deletes and changes no row of another target,
\* however old: every row of another target that was in the table before the
\* append is in it, as it was, after it.
C20_OtherTargetsKept ==
    [][nextId' # nextId =>
          LET appended == history'[CHOOSE j \in DOMAIN history' : history'[j].id = nextId]
          IN  \A i \in DOMAIN history :
                  history[i].connection_id # appended.connection_id =>
                      \E j \in DOMAIN history' : history'[j] = history[i]]_vars

\* the row inserted last is of one target, and a row of another target that
\* is older than the retention period is in the table beside it
C20_StaleRowOfOtherTarget ==
    \E i, j \in DOMAIN history :
        /\ history[j].id = nextId - 1
        /\ history[j].timestamp = now
        /\ history[i].connection_id # history[j].connection_id
        /\ history[i].timestamp < now - RetentionDays * Day

(***************************************************************************)
(* Properties of the daily rollup                                          *)
(***************************************************************************)
\* C19: each entry of the daily rollup aggregates the rows of the window whose
\* timestamp falls on its calendar day: total_checks is their number and
\* uptime_percentage is 100 * up / total of that day, to the rounding of the
\* report and exactly when the quotient has one decimal, 0 when the day has
\* no rows.  10 checks a day over 3 days with 2 down on the second day give
\* 80.00 for that day and 93.33 overall.
C19_DayAggregatesItsRows ==
    (report # None /\ entries # <<>>) =>
        \A d \in DOMAIN report[1].daily_stats :
            LET day   == report[1].daily_stats[d]
                rows  == {i \in InWindowOf(args[1].connection_id, args[1].days) :
                             Date(history[i].timestamp) = day.date}
                total == Cardinality(rows)
                up    == Cardinality({i \in rows : history[i].status = "up"})
            IN  /\ day.total_checks = total
                /\ total = 0 => day.uptime_percentage = 0
                /\ total > 0 =>
                      /\ (day.uptime_percentage * total - 10000 * up)
                            \in (-5 * total)..(5 * total)
                      /\ (10000 * up) % (10 * total) = 0 =>
                            day.uptime_percentage * total = 10000 * up

\* 10 checks a day over 3 days, 2 of the second day down
C19_TwoDownOnDayTwo ==
    /\ report # None
    /\ args[1].days = 3
    /\ Len(report[1].daily_stats) = 3
    /\ \A d \in 1..3 : report[1].daily_stats[d].total_checks = 10
    /\ report[1].daily_stats[1].uptime_percentage = 10000
    /\ report[1].daily_stats[2].uptime_percentage = 8000
    /\ report[1].daily_stats[3].uptime_percentage = 10000
    /\ report[1].total_checks = 30
    /\ report[1].uptime_percentage = 9333

(***************************************************************************)
(* Requests with and without a session: SpecAuth.  The web process alone,  *)
(* its requests from anybody; a request may name a connection that does    *)
(* not exist.                                                              *)
(***************************************************************************)
InitAuth ==
    /\ now = StatsNow
    /\ history = <<>>
    /\ nextId = 1
    /\ args = None
    /\ entries = <<>>
    /\ report = None
    /\ medianOut = None
    /\ probe = None
    /\ connections = MonitoredConnections
    /\ mon = MonAsleep
    /\ api = [t \in 1..MaxThreads |-> Idle]
    /\ begun = 0

RequestStatus ==
    \E t \in DOMAIN api, id \in 1..(Len(connections) + 1), user \in Users :
        ApiCheckOne(t, "status", id, user)

RequestCheck ==
    \E t \in DOMAIN api, id \in 1..(Len(connections) + 1), user \in Users :
        ApiCheckOne(t, "check", id, user)

RequestRefresh == \E t \in DOMAIN api, user \in Users : ApiRefresh(t, user)

RequestEnds == \E t \in DOMAIN api : ApiEndCheck(t)

NextAuth == RequestStatus \/ RequestCheck \/ RequestRefresh \/ RequestEnds

SpecAuth == InitAuth /\ [][NextAuth]_vars

\* C21: a request without a session to an endpoint that triggers checks,
\* /api/connections/<id>/status, /api/connections/<id>/check or
\* /api/dashboard/refresh, is answered by the redirect to the login page: it
\* starts no check, inserts no history row and changes no connection.
C21_UnauthenticatedRedirected ==
    [][\A t \in DOMAIN api :
          (api[t].pc # "checking" /\ api'[t] # api[t] /\ api'[t].user = None) =>
              /\ api'[t].pc = "redirected"
              /\ api'[t].queue = <<>>
              /\ UNCHANGED <<history, nextId, connections, begun>>]_vars

\* a request for a check was redirected after checks of a user who is logged
\* in had been stored
C21_RedirectedBesideChecks ==
    \E t \in DOMAIN api :
        /\ api[t] = Redirected("check")
        /\ history # <<>>
        /\ \E c \in DOMAIN connections : connections[c].last_check # None

(***************************************************************************)
(* The order of the rows a query returns: SpecOrder.  The table of         *)
(* SpecMedian, rows of two targets some of which have equal timestamps,    *)
(* read by the chart query or by the range query of the statistics.        *)
(***************************************************************************)
ChartQuery ==
    /\ args = None
    /\ \E c \in {1, 2}, limit \in 1..MaxPeriods, tie \in TieOrders :
          GetChartHistory(c, limit, tie)

StatisticsQuery ==
    /\ args = None
    /\ \E c \in {1, 2}, tie \in TieOrders : GetConnectionStatistics(c, 1, tie)

NextOrder == ChartQuery \/ StatisticsQuery

SpecOrder == InitMedian /\ [][NextOrder]_vars

\* row a comes before row b in the order (timestamp, id)
Before(a, b) ==
    a.timestamp < b.timestamp \/ (a.timestamp = b.timestamp /\ a.id < b.id)

\* C22: the rows of a query are ordered by timestamp, rows of equal timestamp
\* by id: the chart query of (target, limit) returns the min(limit, n)
\* greatest of the target's n rows in the order (timestamp, id), greatest
\* first, and the range query of the statistics returns its rows in the
\* ascending order (timestamp, id).
C22_TiesByInsertionOrder ==
    args # None =>
        LET c    == args[1].connection_id
            mine == {i \in DOMAIN history : history[i].connection_id = c}
            read == {entries[i] : i \in DOMAIN entries}
        IN  IF args[1].op = "chart"
            THEN /\ Len(entries) = IF Cardinality(mine) < args[1].limit
                                   THEN Cardinality(mine) ELSE args[1].limit
                 /\ \A i \in DOMAIN entries :
                        i < Len(entries) => Before(entries[i + 1], entries[i])
                 /\ \A i \in mine :
                        history[i] \notin read => \A e \in read : Before(history[i], e)
            ELSE \A i \in DOMAIN entries :
                    i < Len(entries) => Before(entries[i], entries[i + 1])

\* a chart query returned two rows of one timestamp, the later inserted first
C22_TiedRowsByIdDescending ==
    /\ args # None
    /\ args[1].op = "chart"
    /\ \E i \in DOMAIN entries :
          /\ i < Len(entries)
          /\ entries[i].timestamp = entries[i + 1].timestamp
          /\ entries[i].id > entries[i + 1].id
    /\ report = Some([chart |-> Reverse(entries)])

(***************************************************************************)
(* The statistics of one table asked for again: SpecRerun.  One connection *)
(* with up to MaxRerunRows rows; after a report the clock may advance by   *)
(* CheckGap, up to MaxReruns times, and the report be asked for again.     *)
(***************************************************************************)
MaxRerunRows == 3
MaxReruns == 1

InitRerun ==
    /\ now = StatsNow
    /\ \E n \in 0..MaxRerunRows :
         \E oc \in [1..n -> RunOutcomes], gaps \in [1..(n - 1) -> {0, CheckGap}] :
            LET ts == Timestamps(StatsNow - MaxRerunRows * CheckGap, gaps) IN
            /\ history = [i \in 1..n |->
                            Row(i, oc[i][1], ts[i], oc[i][2], oc[i][3], oc[i][4])]
            /\ nextId = n + 1
    /\ args = None
    /\ entries = <<>>
    /\ report = None
    /\ medianOut = None
    /\ NoChecks

\* time passes after a report
ClockAdvances ==
    /\ report # None
    /\ now < StatsNow + MaxReruns * CheckGap
    /\ now' = now + CheckGap
    /\ UNCHANGED <<history, nextId, queryVars, checkVars>>

ReportAsked == \E tie \in TieOrders : GetConnectionStatistics(1, 1, tie)

NextRerun == ReportAsked \/ ClockAdvances

SpecRerun == InitRerun /\ [][NextRerun]_vars

\* the step is a derivation, of the rows the derivation before it had
Rederived ==
    /\ report # None
    /\ report' # None
    /\ report'[1].period_end = now'
    /\ now' = now
    /\ entries' = entries

OverlapsDay(incident, date) ==
    LET end == IF IsOngoing(incident) THEN now ELSE incident.end_time[1]
    IN  incident.start_time < (date + 1) * Day /\ end >= date * Day

\* C24: the incidents_count of each entry of the daily rollup is the number
\* of incidents of the report whose interval from start to end, the end of
\* an ongoing incident being the current time, overlaps the calendar day of
\* the entry; an incident that spans several days counts on each of them.
C24_IncidentsPerDay ==
    (report # None /\ entries # <<>>) =>
        \A d \in DOMAIN report[1].daily_stats :
            LET day == report[1].daily_stats[d]
            IN  day.incidents_count =
                    Cardinality({k \in DOMAIN report[1].incidents :
                                    OverlapsDay(report[1].incidents[k], day.date)})

\* an incident that began the day before, counted on both days, beside a
\* later incident of today
C24_SpansTwoDays ==
    /\ report # None
    /\ Len(report[1].daily_stats) = 2
    /\ Len(report[1].incidents) = 2
    /\ Date(report[1].incidents[1].start_time) < Date(report[1].incidents[1].end_time[1])
    /\ report[1].daily_stats[1].incidents_count = 1
    /\ report[1].daily_stats[2].incidents_count = 2

(***************************************************************************)
(* The messages and labels of incidents: SpecMessages.  One connection     *)
(* checked up to MaxMessageRows times, CheckGap seconds apart.  A check    *)
(* that did not find the target up stored the str() of an exception, which *)
(* may be the empty string.                                                *)
(***************************************************************************)
MaxMessageRows == 4

MessageOutcomes ==
    { <<1, "up", Some(20), None>>,
      <<1, "down", None, Some("Connection refused")>>,
      <<1, "down", None, Some("")>>,
      <<1, "unknown", None, Some("Unknown connection type: ftp")>> }

InitMessages ==
    /\ now = StatsNow
    /\ \E n \in 0..MaxMessageRows :
         \E oc \in [1..n -> MessageOutcomes] :
            /\ history = [i \in 1..n |->
                            Row(i, oc[i][1], StatsNow - (MaxMessageRows + 1 - i) * CheckGap,
                                oc[i][2], oc[i][3], oc[i][4])]
            /\ nextId = n + 1
    /\ args = None
    /\ entries = <<>>
    /\ report = None
    /\ medianOut = None
    /\ NoChecks

NextMessages ==
    /\ args = None
    /\ \E tie \in TieOrders : GetConnectionStatistics(1, 1, tie)

SpecMessages == InitMessages /\ [][NextMessages]_vars

\* the label of an incident names its kinds: the kind alone when there is
\* one, 'Mixed (...)' with both when there are two
LabelNamesKinds(incident, kinds) ==
    /\ kinds = {"down"} => incident.status_desc = "Down"
    /\ kinds = {"unknown"} => incident.status_desc = "Unknown"
    /\ kinds = {"down", "unknown"} =>
          incident.status_desc \in {"Mixed (Down, Unknown)", "Mixed (Unknown, Down)"}

InferredPort(target) ==
    CASE target = "mysql.internal"          -> 3306
      [] target = "Postgres-MySQL.internal" -> 3306
      [] target = "postgres.internal"       -> 5432
      [] target = "redis-mongodb.internal"  -> 6379
      [] target = "mongodb.internal"        -> 27017
      [] OTHER                              -> 3306

\* C26: the check of a database target without a port (null, or 0) probes
\* the port its address names, mysql 3306 before postgres 5432 before redis
\* 6379 before mongodb 27017, and 3306 when it names none; the check of a
\* database target with a port probes that port; the result is that of the
\* check of a tcp target of the same address, timeout and probed port.
C26_DatabasePort ==
    (probe # None /\ probe[1].connection.connection_type = "database") =>
        LET connection == probe[1].connection
            port       == IF connection.port \in {None, Some(0)}
                          THEN InferredPort(connection.target)
                          ELSE connection.port[1]
            tcp        == [connection EXCEPT !.connection_type = "tcp", !.port = Some(port)]
        IN  /\ probe[1].port = Some(port)
            /\ probe[1].result = CheckConnection(tcp, probe[1].env)
            /\ ProbedPort(tcp) = Some(port)

\* a database whose address names redis and mongodb, without a port, was
\* probed on 6379 and found up
C26_RedisBeforeMongodb ==
    /\ probe # None
    /\ probe[1].connection.connection_type = "database"
    /\ probe[1].connection.target = "redis-mongodb.internal"
    /\ probe[1].connection.port = None
    /\ probe[1].port = Some(6379)
    /\ probe[1].result = Result("up", Some(10), None)

(***************************************************************************)
(* The frame of a check                                                    *)
(***************************************************************************)
\* the configuration of a connection: what a check is made of
Configuration(connection) ==
    <<connection.connection_type, connection.target, connection.port,
      connection.timeout, connection.is_active>>

\* C27: a check and the update_status that stores it leave the kind, the
\* address, the port and the timeout of every connection as they were; a
\* database connection created without a port has none after any number of
\* checks.
C27_CheckKeepsConfiguration ==
    [][\A c \in DOMAIN connections :
          Configuration(connections'[c]) = Configuration(connections[c])]_vars

\* a check of the http connection was stored, and its configuration is the
\* one it was created with
C27_HttpCheckedUnchanged ==
    /\ connections[1].last_check # None
    /\ \E i \in DOMAIN history : history[i].connection_id = 1
    /\ Configuration(connections[1]) = Configuration(MonitoredConnections[1])

(***************************************************************************)
(* The daily rollup as a partition of the window                           *)
(***************************************************************************)
\* the total_checks of the entries of a daily rollup, added up
DailyChecks(daily_stats) ==
    SumSeq([d \in DOMAIN daily_stats |-> daily_stats[d].total_checks])

\* C28: in the report of a window that holds rows, every row counted in
\* total_checks is counted in one entry of the daily rollup: the
\* total_checks of the entries add up to the total_checks of the report.
C28_DailySumsToTotal ==
    (report # None /\ entries # <<>>) =>
        DailyChecks(report[1].daily_stats) = report[1].total_checks

\* a window of two days whose three rows are of its two calendar days
C28_RowsOfBothDays ==
    /\ report # None
    /\ report[1].total_checks = 3
    /\ Len(report[1].daily_stats) = 2
    /\ report[1].daily_stats[1].total_checks = 1
    /\ report[1].daily_stats[2].total_checks = 2

(***************************************************************************)
(* Statistics over sample data: SpecSample.  The table is empty at noon;   *)
(* sample data of the last SampleDays days is created for connection 1,    *)
(* and its statistics are asked for.                                       *)
(***************************************************************************)
SampleDays == 2

InitSample ==
    /\ now = StatsNow
    /\ history = <<>>
    /\ nextId = 1
    /\ args = None
    /\ entries = <<>>
    /\ report = None
    /\ medianOut = None
    /\ NoChecks

SampleCreated == CreateSampleData(1, SampleDays)

SampleReport ==
    /\ args = None
    /\ \E days \in 1..SampleDays, tie \in TieOrders : GetConnectionStatistics(1, days, tie)

NextSample == SampleCreated \/ SampleReport

SpecSample == InitSample /\ [][NextSample]_vars

\* C29: the incidents of a report, derived from rows in ascending order of
\* timestamp, are chronological and do not overlap: each starts no later
\* than it ends and has a duration of at least 0, each ends no later than
\* the next starts, and only the last can be flagged ongoing.
C29_ChronologicalDisjoint ==
    report # None =>
        LET incidents == report[1].incidents IN
        \A k \in DOMAIN incidents :
            /\ incidents[k].end_time # None
            /\ incidents[k].start_time <= incidents[k].end_time[1]
            /\ incidents[k].duration_minutes >= 0
            /\ k < Len(incidents) =>
                  /\ incidents[k].end_time[1] <= incidents[k + 1].start_time
                  /\ ~IsOngoing(incidents[k])

\* a closed incident and then one ongoing since midnight, in order
C29_ClosedThenOngoingInOrder ==
    /\ report # None
    /\ Len(report[1].incidents) = 2
    /\ ~IsOngoing(report[1].incidents[1])
    /\ IsOngoing(report[1].incidents[2])
    /\ report[1].incidents[1].end_time[1] <= report[1].incidents[2].start_time
    /\ report[1].incidents[2].start_time < now
    /\ report[1].incidents[2].duration_minutes > 0

(***************************************************************************)
(* widgets/builtin/connection_monitor.py: ConnectionMonitorWidget.get_data *)
(***************************************************************************)
\* f'{down_count} service(s) down'
ServicesDown(down_count) ==
    CASE down_count = 1 -> "1 service(s) down"
      [] down_count = 2 -> "2 service(s) down"
      [] OTHER          -> "3 service(s) down"

\* the summary of the active connections
Summary(active) ==
    LET total_connections == Cardinality(active)
        Count(status)     == Cardinality({c \in active : connections[c].last_status = Some(status)})
        up_count          == Count("up")
        down_count        == Count("down")
        unknown_count     == Count("unknown")
        overall           ==
            IF total_connections = 0 THEN <<"warning", "No connections configured">>
            ELSE IF down_count = 0 THEN <<"success", "All services are up">>
            ELSE IF down_count = total_connections THEN <<"danger", "All services are down">>
            ELSE <<"warning", ServicesDown(down_count)>>
    IN  [total |-> total_connections, up |-> up_count, down |-> down_count,
         unknown |-> unknown_count,
         overall_status |-> overall[1], overall_message |-> overall[2]]

\* The data of the widget: the summary and, for each active connection, its
\* cached status (the median and the chart rows are read from the history
\* and are not kept here); an exception of the store gives the error alone.
GetData ==
    /\ \E ok \in BOOLEAN :
          report' = IF ok
                    THEN Some([summary |-> Summary(ActiveIds),
                               connections |->
                                   [i \in DOMAIN Ascending(ActiveIds) |->
                                       LET conn == connections[Ascending(ActiveIds)[i]]
                                       IN  [id     |-> conn.id,
                                            status |-> IF TruthyStr(conn.last_status)
                                                       THEN conn.last_status[1]
                                                       ELSE "unknown",
                                            response_time |-> conn.last_response_time,
                                            error  |-> conn.last_error]]])
                    ELSE Some([error |-> "Failed to get connection data: database is locked"])
    /\ args' = Some([op |-> "widget"])
    /\ UNCHANGED <<storeVars, entries, medianOut, checkVars>>

(***************************************************************************)
(* The widget over stored connections: SpecWidget.  Up to                  *)
(* MaxWidgetConnections connections, each active or not, each never        *)
(* checked or last found up, down or unknown.                              *)
(***************************************************************************)
MaxWidgetConnections == 2

\* a connection as its last check left it
Checked(id, is_active, last_status) ==
    [Connection(id, "http", "example.org", None, Some(5)) EXCEPT
        !.is_active = is_active,
        !.last_status = last_status,
        !.last_check = IF last_status = None THEN None ELSE Some(StatsNow - CheckGap),
        !.last_response_time = IF last_status = Some("up") THEN Some(30) ELSE None,
        !.last_error = IF last_status \in {None, Some("up")} THEN None
                       ELSE IF last_status = Some("down") THEN Some("Connection refused")
                       ELSE Some(StoreError),
        !.updated_at = IF last_status = None THEN None ELSE Some(StatsNow - CheckGap)]

InitWidget ==
    /\ now = StatsNow
    /\ history = <<>>
    /\ nextId = 1
    /\ args = None
    /\ entries = <<>>
    /\ report = None
    /\ medianOut = None
    /\ probe = None
    /\ \E n \in 0..MaxWidgetConnections :
          \E act \in [1..n -> BOOLEAN],
             st \in [1..n -> {None, Some("up"), Some("down"), Some("unknown")}] :
             connections = [i \in 1..n |-> Checked(i, act[i], st[i])]
    /\ mon = MonAsleep
    /\ api = <<>>
    /\ begun = 0

NextWidget == args = None /\ GetData

SpecWidget == InitWidget /\ [][NextWidget]_vars

\* C30: the widget reports the overall status 'success', with the message
\* 'All services are up', only when the last status of every active
\* connection is up: with an active connection that is down, unknown or
\* never checked the overall status is not 'success'.
C30_SuccessOnlyWhenAllUp ==
    (report # None /\ "summary" \in DOMAIN report[1]) =>
        LET summary == report[1].summary
            all_up  == \A c \in ActiveIds : connections[c].last_status = Some("up")
        IN  /\ summary.overall_status = "success" => all_up
            /\ summary.overall_message = "All services are up" => all_up

\* success reported for an active connection that is up beside one that is
\* down and not active
C30_AllActiveUp ==
    /\ report # None
    /\ "summary" \in DOMAIN report[1]
    /\ report[1].summary.overall_status = "success"
    /\ report[1].summary.total = 1
    /\ report[1].summary.up = 1
    /\ \E c \in DOMAIN connections :
          ~connections[c].is_active /\ connections[c].last_status = Some("down")

====
